---- MODULE Spec2Model ----
(***************************************************************************)
(* Model of the key-manager backend: the credit-guarded AI gateway         *)
(* (app.post('/api/ai/generate')), the payment state machine               *)
(* (PaymentService + Payment model + payment routes) and the outbound      *)
(* proxy assignment routes (admin proxies router).                         *)
(*                                                                         *)
(* Every handler is an async function: it runs synchronously up to the     *)
(* next `await`, and other handlers may run between two awaits.  One       *)
(* action of the model is one awaited store/network operation together     *)
(* with the synchronous code that follows it up to the next await.         *)
(***************************************************************************)
EXTENDS Integers, Sequences, FiniteSets, TLC

VARIABLES
    keys,       \* Key collection: key token -> [isActive, credit]
    gen,        \* in-flight generate requests: slot -> locals of the handler
    ledger,     \* per key token: starting balance (b0) and credits granted since
    variant,    \* which version of the generate handler the server runs
    payments,   \* Payment collection: payment id -> document (exists = FALSE: none)
    issued,     \* number of payment ids issued so far (uuidv4 never repeats)
    now,        \* the clock (Date.now()), in units of the payment expiry delay
    cp,         \* completePayment invocations: slot -> locals of the call
    proxies,    \* Proxy collection: proxy id -> document (exists = FALSE: none)
    aa,         \* auto-assign runs: slot -> locals of the handler
    uc,         \* use-credit calls: slot -> locals of the handler
    del,        \* proxy delete calls: slot -> locals of the handler
    transactions,   \* Transaction collection: the orderIds recorded
    wh,         \* calls of the /api/payment/webhook handler: slot -> locals
    created,    \* result of the last createPayment call
    apiProvider,    \* the ApiProvider document ApiKeyManager works on
    gb,         \* getBestApiKey calls: slot -> locals of the call
    kclock,     \* the clock of the key manager (new Date())
    saveMode,   \* how provider.save() writes a pushed and reassigned array
    marked,     \* keys with a recorded quota error since the last reset
    cache,      \* proxyManager.cache: upstream key -> cached proxy id and cacheTime
    mr,         \* makeRequestWithProxy calls: slot -> locals of the call
    pstats,     \* Proxy collection, statistics and notes: proxy id -> successCount, ...
    hc          \* the performHealthCheck run: locals of the call

genVars == <<gen, ledger, variant>>

payVars == <<payments, issued, now, cp>>

proxyVars == <<proxies, aa>>

\* state of the proxy manager
reqVars == <<cache, mr, pstats, hc>>

\* state of the handlers outside the generate, payment and proxy routes
restVars == <<uc, del, transactions, wh, created, apiProvider, gb, kclock, saveMode, marked>>

vars == <<keys, gen, ledger, variant, payments, issued, now, cp, proxies, aa, uc, del, transactions, wh, created, apiProvider, gb, kclock, saveMode, marked, cache, mr, pstats, hc>>

----------------------------------------------------------------------------
(* Bounds of the model *)

\* generate requests received in one behaviour (each may overlap the others)
NumReq == 2
\* largest starting balance of the active key
MaxCredit == 2
\* credit grants applied to the ledger in one behaviour
MaxGrants == 1

----------------------------------------------------------------------------
(* Values *)

NULL == "null"

\* Authorization header values: missing, an active key, an inactive key,
\* a token that is not in the Key collection.
NoToken == ""
KeyA == "KEY-A"
KeyB == "KEY-B"
KeyX == "KEY-X"
Tokens == {NoToken, KeyA, KeyB, KeyX}
StoredKeys == {KeyA, KeyB}

\* req.body.provider values
ProviderInputs == {"gemini", "GEMINI", "openai", "claude"}

\* String.prototype.toLowerCase on the provider names in use
toLowerCase(s) == IF s = "GEMINI" THEN "gemini" ELSE s

\* ApiProvider collection: name -> apiKeys, in stored order ("claude" is
\* registered without keys)
ApiProviderKeys == [gemini |-> <<"AIza-1">>, openai |-> <<"sk-1">>, claude |-> <<>>]

\* the apiKeys of each provider as a set
ApiProviders ==
    [n \in DOMAIN ApiProviderKeys |->
        {ApiProviderKeys[n][x] : x \in 1..Len(ApiProviderKeys[n])}]

\* ApiProvider.findOne({ name: { $regex: /^provider$/i } }): the apiKeys of the
\* provider whose name equals the input ignoring case, {} when there is none.
\* The gemini document is the one the key manager works on.
FindProviderKeys(p) ==
    IF toLowerCase(p) = "gemini"
    THEN IF apiProvider.exists
         THEN {apiProvider.apiKeys[x] : x \in 1..Len(apiProvider.apiKeys)}
         ELSE {}
    ELSE IF toLowerCase(p) \in DOMAIN ApiProviders THEN ApiProviders[toLowerCase(p)] ELSE {}

\* the two versions of the handler in the repository
Variants == {"final", "secure"}

\* what the upstream call can do
UpstreamOutcomes == {"ok", "http_error", "network_error"}

\* a 2xx answer without generated text: an empty candidates array, or a body
\* without the candidates field
EmptyOutcomes == {"empty_candidates", "no_candidates"}

\* the text of a response that carries none
Placeholder == "No content generated"

\* upstream keys the proxy manager is asked about
CacheKeys == {"AIza-1", "AIza-2", "sk-1"}

\* Proxy.getProxyForApiKey(apiKey): findOne({ assignedApiKey: apiKey,
\* isActive: true }), the id of the first match, 0 for null
FindProxyFor(apiKey) ==
    LET match == {x \in DOMAIN proxies : /\ proxies[x].exists
                                         /\ proxies[x].isActive
                                         /\ proxies[x].assignedApiKey = apiKey}
    IN IF match = {} THEN 0 ELSE CHOOSE x \in match : \A y \in match : x <= y

\* 30 * 60 * 1000 ms, the age at which a cache entry stops being served, in
\* ticks of the clock
CacheTTL == 1

\* the key has no entry in proxyManager.cache
NoEntry == [proxy |-> 0, cacheTime |-> 0]

\* (mutation) an entry aged exactly 30 minutes is still served
MutIsCachedInclusive(apiKey) ==
    /\ cache[apiKey] # NoEntry
    /\ now - cache[apiKey].cacheTime <= CacheTTL

\* this.cache.has(apiKey) && Date.now() - cachedProxy.cacheTime < 30 * 60 * 1000
IsCached(apiKey) ==
    /\ cache[apiKey] # NoEntry
    /\ now - cache[apiKey].cacheTime < CacheTTL

\* proxyManager.getProxyForApiKey(apiKey): the proxy it returns (0: null), the
\* cache it leaves and how it answered.  A served entry leaves the cache alone;
\* otherwise the entry, if any, is deleted and the store is queried: a proxy
\* found is cached with the current time, none found or a failed query
\* (storeOk = FALSE, caught) returns null.
getProxyForApiKey(apiKey, storeOk) ==
    IF IsCached(apiKey)
    THEN [proxy |-> cache[apiKey].proxy, cache |-> cache, lookup |-> "hit"]
    ELSE IF storeOk /\ FindProxyFor(apiKey) # 0
    THEN [proxy |-> FindProxyFor(apiKey),
          cache |-> [cache EXCEPT ![apiKey] =
                        [proxy |-> FindProxyFor(apiKey), cacheTime |-> now]],
          lookup |-> "store"]
    ELSE [proxy |-> 0, cache |-> [cache EXCEPT ![apiKey] = NoEntry],
          lookup |-> IF storeOk THEN "store" ELSE "failed"]

Reqs == 1..NumReq

\* the null result of a findOneAndUpdate that matched no document
NoKeyDoc == [key |-> NULL, credit |-> 0]

IdleReq ==
    [pc |-> "idle", userKey |-> NoToken,
     updatedKey |-> NoKeyDoc, error |-> NULL, status |-> 0,
     dispatched |-> 0, refunds |-> 0, inc |-> 0,
     apiKey |-> NULL, via |-> "none", text |-> NULL]

\* res.status(code).json(...): the handler is over, its locals are dead; what
\* stays is what the request did (token, reservation, counts) and the answer.
Respond(rec, code) ==
    [rec EXCEPT !.pc = "done", !.status = code, !.error = NULL,
                !.apiKey = NULL, !.via = "none"]

\* a key's starting balance and the credits granted to it since
ZeroLedger == [b0 |-> 0, granted |-> 0]

----------------------------------------------------------------------------
(* Credit ledger primitives (single-document atomic updates) *)

\* (mutation) the filter without credit: { $gt: 0 }
MutReserveMatchesNoBalance(k) ==
    /\ k \in DOMAIN keys
    /\ keys[k].isActive

\* Key.findOneAndUpdate({key, isActive: true, credit: {$gt: 0}}, {$inc: {credit: -1}})
\* matches?
ReserveMatches(k) ==
    /\ k \in DOMAIN keys
    /\ keys[k].isActive
    /\ keys[k].credit > 0

\* the $inc applied to the matched document
IncCredit(k, n) == [keys EXCEPT ![k].credit = @ + n]

\* (mutation) a refund of two credits
MutRefundAmountTwo == 1 + 1

\* amount of the refund increment: { $inc: { credit: 1 } }
RefundAmount == 1

----------------------------------------------------------------------------
(* app.post('/api/ai/generate') *)

\* The handler is entered: a missing token is answered 401.  (req.body.provider
\* is first used after the reservation and is drawn there.)
GenStart(r) ==
    /\ gen[r].pc = "idle"
    /\ \A q \in Reqs : q < r => gen[q].pc # "idle"   \* slots are interchangeable
    /\ \E t \in Tokens :
         gen' = [gen EXCEPT ![r] =
                   IF t = NoToken
                   THEN Respond(IdleReq, 401)
                   ELSE [IdleReq EXCEPT !.userKey = t, !.pc = "reserve"]]
    /\ UNCHANGED <<keys, ledger, variant, payVars, proxyVars, restVars, reqVars>>

\* (mutation) the null result is not rejected: the handler goes on without a
\* reservation
MutGenReserveNoReject(r) ==
    /\ gen[r].pc = "reserve"
    /\ LET k == gen[r].userKey IN
       IF ReserveMatches(k)
       THEN /\ keys' = IncCredit(k, -1)
            /\ gen' = [gen EXCEPT ![r].updatedKey = [key |-> k, credit |-> keys[k].credit - 1],
                                  ![r].inc = @ - 1,
                                  ![r].pc = "provider"]
            /\ UNCHANGED ledger
       ELSE /\ gen' = [gen EXCEPT ![r].updatedKey =
                                      IF k \in StoredKeys
                                      THEN [key |-> k, credit |-> keys[k].credit]
                                      ELSE [key |-> KeyA, credit |-> keys[KeyA].credit],
                                  ![r].pc = "provider"]
            /\ UNCHANGED <<keys, ledger>>
    /\ UNCHANGED <<variant, payVars, proxyVars, restVars, reqVars>>

\* await Key.findOneAndUpdate(...): the atomic reservation; null is answered 403.
GenReserve(r) ==
    /\ gen[r].pc = "reserve"
    /\ LET k == gen[r].userKey IN
       IF ReserveMatches(k)
       THEN /\ keys' = IncCredit(k, -1)
            /\ gen' = [gen EXCEPT ![r].updatedKey = [key |-> k, credit |-> keys[k].credit - 1],
                                  ![r].inc = @ - 1,
                                  ![r].pc = "provider"]
            /\ UNCHANGED ledger
       ELSE /\ gen' = [gen EXCEPT ![r] = Respond(gen[r], 403)]
            /\ UNCHANGED <<keys, ledger>>
    /\ UNCHANGED <<variant, payVars, proxyVars, restVars, reqVars>>

\* await ApiProvider.findOne(...) for the provider named in the request, then the
\* synchronous code up to the next await: the no-keys check, the random key
\* pick and the provider switch.
GenProvider(r) ==
    /\ gen[r].pc = "provider"
    /\ \E provider \in ProviderInputs :
         LET apiKeys == FindProviderKeys(provider) IN
         IF apiKeys = {}
         THEN \* final: throw 'No API keys...' ; secure: await refund, return 503
              gen' = [gen EXCEPT ![r].error = "No API keys", ![r].pc = "refund"]
         ELSE \E apiKey \in apiKeys :
                IF toLowerCase(provider) = "gemini"
                THEN gen' = [gen EXCEPT ![r].apiKey = apiKey,
                                        ![r].via = IF variant = "final"
                                                   THEN "none" ELSE "direct",
                                        ![r].pc = IF variant = "final"
                                                  THEN "proxy" ELSE "upstream"]
                ELSE \* default: final throws 'not yet supported'; secure refunds, 400
                     gen' = [gen EXCEPT ![r].error = "not yet supported",
                                        ![r].pc = "refund"]
    /\ UNCHANGED <<keys, ledger, variant, payVars, proxyVars, restVars, reqVars>>

\* final only: await proxyManager.getProxyForApiKey(apiKey); either answer leads
\* to the upstream call (through the proxy, or directly).
GenProxyLookup(r) ==
    /\ gen[r].pc = "proxy"
    /\ \E storeOk \in BOOLEAN :
         LET found == getProxyForApiKey(gen[r].apiKey, storeOk) IN
            /\ gen' = [gen EXCEPT ![r].via = IF found.proxy # 0 THEN "proxy" ELSE "direct",
                                  ![r].pc = "upstream"]
            /\ cache' = found.cache
    /\ UNCHANGED <<keys, ledger, variant, payVars, proxyVars, restVars, mr, pstats, hc>>

\* (mutation) the proxied path refuses a body without text
MutTextOfThrowsOnEmpty(via, o, sdkThrows) ==
    IF o = "ok" THEN "generated"
    ELSE IF via = "proxy" THEN NULL
    ELSE IF sdkThrows THEN NULL ELSE ""

\* generatedText for a 2xx answer, NULL when reading it throws.  Through the
\* proxy: data.candidates[0]?.content?.parts[0]?.text || 'No content generated',
\* which throws only when candidates is missing.  Direct: result.response.text()
\* of the SDK, which answers the empty string or throws (sdkThrows)
TextOf(via, o, sdkThrows) ==
    IF o = "ok" THEN "generated"
    ELSE IF via = "proxy"
         THEN IF o = "empty_candidates" THEN Placeholder ELSE NULL
         ELSE IF sdkThrows THEN NULL ELSE ""

\* The upstream call is dispatched and answers o.  A 2xx answer whose text can
\* be read responds 200 with the text and remainingCredits; a non-2xx status,
\* a network error or a throwing read goes to the catch block.
GenAnswer(r, o) ==
    /\ gen[r].pc = "upstream"
    /\ \E sdkThrows \in BOOLEAN :
         LET sent == [gen[r] EXCEPT !.dispatched = @ + 1]
             text == TextOf(gen[r].via, o, sdkThrows)
         IN gen' = [gen EXCEPT ![r] =
                      IF o \in {"http_error", "network_error"}
                      THEN [sent EXCEPT !.error = o, !.pc = "refund"]
                      ELSE IF text = NULL
                      THEN [sent EXCEPT !.error = "TypeError", !.pc = "refund"]
                      ELSE Respond([sent EXCEPT !.text = text], 200)]
    /\ UNCHANGED <<keys, ledger, variant, payVars, proxyVars, restVars, reqVars>>

\* the upstream call with an answer that is an error or carries text
GenUpstream(r) == \E o \in UpstreamOutcomes : GenAnswer(r, o)

\* the upstream call with any answer
GenUpstreamAny(r) == \E o \in UpstreamOutcomes \cup EmptyOutcomes : GenAnswer(r, o)

\* status code answered after the refund
FailureStatus(v, e) ==
    IF e = "No API keys" THEN 503
    ELSE IF e = "not yet supported" THEN 400
    ELSE 500   \* final: 'An internal server error occurred.'; secure: 'Failed to generate'


\* (mutation) the unsupported-provider path answers 400 without refunding
MutGenRefundSkipsUnsupported(r) ==
    /\ gen[r].pc = "refund"
    /\ LET k == gen[r].updatedKey.key
           n == IF gen[r].error = "not yet supported" THEN 0 ELSE RefundAmount IN
       /\ keys' = IncCredit(k, n)
       /\ UNCHANGED ledger
       /\ gen' = [gen EXCEPT ![r] =
                    Respond([gen[r] EXCEPT !.inc = @ + n, !.refunds = @ + 1],
                            FailureStatus(variant, gen[r].error))]
    /\ UNCHANGED <<variant, payVars, proxyVars, restVars, reqVars>>

\* await Key.findByIdAndUpdate(updatedKey._id, { $inc: { credit: 1 } }), then the
\* error response.  Reached once per failed request: from the catch block, or
\* (secure) from the inline refund that is followed by `return`.
GenRefund(r) ==
    /\ gen[r].pc = "refund"
    /\ LET k == gen[r].updatedKey.key IN
       /\ keys' = IncCredit(k, RefundAmount)
       /\ UNCHANGED ledger
       /\ gen' = [gen EXCEPT ![r] =
                    Respond([gen[r] EXCEPT !.inc = @ + RefundAmount, !.refunds = @ + 1],
                            FailureStatus(variant, gen[r].error))]
    /\ UNCHANGED <<variant, payVars, proxyVars, restVars, reqVars>>

\* PaymentService.completePayment's grant / admin top-up: an atomic positive $inc
GrantCredit(k, n) ==
    /\ ledger[KeyA].granted + ledger[KeyB].granted < MaxGrants
    /\ keys' = IncCredit(k, n)
    /\ ledger' = [ledger EXCEPT ![k].granted = @ + n]
    /\ UNCHANGED <<gen, variant, payVars, proxyVars, restVars, reqVars>>

----------------------------------------------------------------------------
(* Payments: PaymentService, the Payment model and the payment routes *)

\* payment ids issued in one behaviour
MaxPayments == 2
\* completePayment invocations in one behaviour (each may overlap the others)
NumCp == 2
\* last value of the clock
MaxTime == 2

\* expiredAt default: Date.now() + 30 * 60 * 1000; the clock counts in units of
\* this delay
ExpiryDelay == 1

PaymentIds == 1..MaxPayments
CpIds == 1..NumCp

\* transaction ids: none, one supplied by the caller, or `MANUAL_${Date.now()}`
NoTx == [kind |-> "none", n |-> 0]
GivenTx == {[kind |-> "given", n |-> n] : n \in 1..2}
ManualTx(t) == [kind |-> "MANUAL", n |-> t]

\* the slot of a payment id that holds no document
NoPayment ==
    [exists |-> FALSE, userKey |-> NULL, creditAmount |-> 0, price |-> 0,
     status |-> "none", transactionId |-> NoTx, completedAt |-> -1, expiredAt |-> -1,
     orderCode |-> -1, payUrl |-> "none"]

IdleCp ==
    [pc |-> "idle", paymentId |-> 0, payment |-> NoPayment, granted |-> FALSE,
     error |-> NULL]

\* the call returns or throws: its locals are dead; what stays is what it did
Return(call, err) ==
    [call EXCEPT !.pc = "done", !.error = err, !.payment = NoPayment]

\* CreditPackage collection
PackageDocs ==
    {[credits |-> 2, price |-> 9000, isActive |-> TRUE],
     [credits |-> 1, price |-> 7000, isActive |-> FALSE],
     [credits |-> 10001, price |-> 8000, isActive |-> FALSE],
     [credits |-> 10002, price |-> 5000, isActive |-> TRUE]}

\* CreditPackage.findOne({ credits, isActive: { $ne: false } }): credits -> price
CreditPackages ==
    [c \in {d.credits : d \in {x \in PackageDocs : x.isActive}} |->
        (CHOOSE d \in PackageDocs : d.isActive /\ d.credits = c).price]

\* fallbackRate: 1 credit = 4545 VND
FallbackRate == 4545

\* ceiling of the flexible amount
MaxFlexibleCredit == 10000

\* req.body credit amounts offered to createPayment
CreditInputs == {0, 1, 2, 10001}

\* (mutation) the flexible amount has no ceiling
MutIsValidNoCeiling(creditAmount) ==
    \/ creditAmount \in DOMAIN CreditPackages
    \/ creditAmount > 0

\* (mutation) the package lookup ignores isActive
MutPriceOfAnyPackage(creditAmount) ==
    IF \E d \in PackageDocs : d.credits = creditAmount
    THEN (CHOOSE d \in PackageDocs : d.credits = creditAmount).price
    ELSE creditAmount * FallbackRate

\* PaymentService.isValidCreditAmount
isValidCreditAmount(creditAmount) ==
    \/ creditAmount \in DOMAIN CreditPackages
    \/ (creditAmount > 0 /\ creditAmount <= MaxFlexibleCredit)

\* PaymentService.getPriceForCredit
getPriceForCredit(creditAmount) ==
    IF creditAmount \in DOMAIN CreditPackages
    THEN CreditPackages[creditAmount]
    ELSE creditAmount * FallbackRate

\* paymentSchema.methods.isExpired: new Date() > this.expiredAt
isExpired(doc) == now > doc.expiredAt

\* PaymentService.createPayment(userKey, creditAmount): the validations read
\* data no other operation of this specification writes, so the call is one
\* step: it either throws (nothing is stored) or saves one pending Payment.
CreatePayment(userKey, creditAmount, payosOk) ==
    /\ issued < MaxPayments
    /\ userKey # NoToken /\ creditAmount # 0          \* 'User key and credit amount are required'
    /\ isValidCreditAmount(creditAmount)              \* 'Invalid credit amount'
    /\ userKey \in DOMAIN keys /\ keys[userKey].isActive  \* 'Invalid or inactive user key'
    /\ getPriceForCredit(creditAmount) # 0            \* 'Unable to get price'
    /\ issued' = issued + 1
    /\ payments' = [payments EXCEPT ![issued + 1] =
                      [exists |-> TRUE, userKey |-> userKey, creditAmount |-> creditAmount,
                       price |-> getPriceForCredit(creditAmount),
                       status |-> "pending", transactionId |-> NoTx, completedAt |-> -1,
                       expiredAt |-> now + ExpiryDelay,
                       orderCode |-> now,
                       payUrl |-> IF payosOk THEN "payos" ELSE "manual"]]
    /\ UNCHANGED <<keys, now, cp, genVars, proxyVars, restVars, reqVars>>

\* time passes
Tick ==
    /\ now < MaxTime
    /\ now' = now + 1
    /\ UNCHANGED <<keys, payments, issued, cp, genVars, proxyVars, restVars, reqVars>>

\* Document.save() of an existing document: $set of the modified paths on the
\* stored document with this _id.  It throws when the document is gone
\* (DocumentNotFoundError) or when the unique sparse index on transactionId
\* holds the same id for another payment (E11000).
SaveError(p, doc) ==
    IF ~payments[p].exists THEN "DocumentNotFoundError"
    ELSE IF /\ doc.transactionId # NoTx
            /\ \E q \in PaymentIds : /\ q # p
                                     /\ payments[q].exists
                                     /\ payments[q].transactionId = doc.transactionId
    THEN "E11000 duplicate key"
    ELSE NULL

\* completePayment(paymentId, transactionId) is entered and
\* `await Payment.findById(paymentId)` answers; then the synchronous checks:
\* not found, not pending, expired.  `await Key.findOne({ key: payment.userKey })`
\* reads a collection whose key tokens nothing here changes and is joined to
\* this step.
CpFind(i) ==
    /\ cp[i].pc = "idle"
    /\ \A j \in CpIds : j < i => cp[j].pc # "idle"     \* slots are interchangeable
    /\ \E p \in PaymentIds :
         LET doc == payments[p]
             call == [IdleCp EXCEPT !.paymentId = p, !.payment = doc]
         IN cp' = [cp EXCEPT ![i] =
                IF ~doc.exists
                THEN Return(call, "Payment not found")
                ELSE IF doc.status # "pending"
                THEN Return(call, "Payment is not in pending status")
                ELSE IF isExpired(doc)
                THEN [call EXCEPT !.pc = "markAsFailed"]
                ELSE IF doc.userKey \notin DOMAIN keys
                THEN Return(call, "User key not found")
                ELSE [call EXCEPT !.pc = "grant"]]
    /\ UNCHANGED <<keys, payments, issued, now, genVars, proxyVars, restVars, reqVars>>

\* await payment.markAsFailed(); throw 'Payment has expired'
CpMarkAsFailed(i) ==
    /\ cp[i].pc = "markAsFailed"
    /\ LET p == cp[i].paymentId
           doc == [cp[i].payment EXCEPT !.status = "failed"]
           err == SaveError(p, doc)
       IN /\ payments' = IF err = NULL
                         THEN [payments EXCEPT ![p].status = "failed"]
                         ELSE payments
          /\ cp' = [cp EXCEPT ![i] =
                      Return(cp[i], IF err = NULL THEN "Payment has expired" ELSE err)]
    /\ UNCHANGED <<keys, issued, now, genVars, proxyVars, restVars, reqVars>>

\* await Key.findByIdAndUpdate(key._id, { $inc: { credit: payment.creditAmount } })
CpGrant(i) ==
    /\ cp[i].pc = "grant"
    /\ keys' = IncCredit(cp[i].payment.userKey, cp[i].payment.creditAmount)
    /\ cp' = [cp EXCEPT ![i].granted = TRUE, ![i].pc = "markAsCompleted"]
    /\ UNCHANGED <<payments, issued, now, genVars, proxyVars, restVars, reqVars>>

\* await payment.markAsCompleted(transactionId || `MANUAL_${Date.now()}`), with
\* the transactionId argument of the call (first used here); then the call
\* returns { success: true, ... }
CpMarkAsCompleted(i) ==
    /\ cp[i].pc = "markAsCompleted"
    /\ \E transactionId \in {NoTx} \cup GivenTx :
       LET p == cp[i].paymentId
           tx == IF transactionId = NoTx THEN ManualTx(now) ELSE transactionId
           doc == [cp[i].payment EXCEPT !.status = "completed", !.transactionId = tx,
                                        !.completedAt = now]
           err == SaveError(p, doc)
       IN /\ payments' = IF err = NULL
                         THEN [payments EXCEPT ![p].status = "completed",
                                               ![p].transactionId = tx,
                                               ![p].completedAt = now]
                         ELSE payments
          /\ cp' = [cp EXCEPT ![i] = Return(cp[i], err)]
    /\ UNCHANGED <<keys, issued, now, genVars, proxyVars, restVars, reqVars>>

\* (mutation) the sweep's filter without the expiredAt test
MutSweepMatchesAnyPending(doc) ==
    /\ doc.exists
    /\ doc.status = "pending"

\* the filter of the sweep: { status: 'pending', expiredAt: { $lt: new Date() } }
SweepMatches(doc) ==
    /\ doc.exists
    /\ doc.status = "pending"
    /\ doc.expiredAt < now

\* paymentSchema.statics.cleanup: updateMany({status: 'pending', expiredAt: {$lt: now}},
\* {$set: {status: 'expired'}}), called by PaymentService.cleanupExpiredPayments
Cleanup ==
    /\ payments' = [p \in PaymentIds |->
                      IF SweepMatches(payments[p])
                      THEN [payments[p] EXCEPT !.status = "expired"]
                      ELSE payments[p]]
    /\ UNCHANGED <<keys, issued, now, cp, genVars, proxyVars, restVars, reqVars>>

\* the TTL index { expiredAt: 1 }, expireAfterSeconds: 0: the store removes a
\* document once its expiredAt has passed, whatever its status
TTLDelete(p) ==
    /\ payments[p].exists
    /\ payments[p].expiredAt < now
    /\ payments' = [payments EXCEPT ![p] = NoPayment]
    /\ UNCHANGED <<keys, issued, now, cp, genVars, proxyVars, restVars, reqVars>>

\* router.post('/webhook/payos'): a payload with code '00' and status PAID
\* evaluates `Payment.findOne(...)`; the router imports paymentService and
\* createAuditLog only, so `Payment` is unbound, the ReferenceError is caught and
\* the route answers 500.  Any other payload is answered 200.
WebhookResponse(code, status) ==
    IF code = "00" /\ status = "PAID" THEN 500 ELSE 200

\* the webhook route writes nothing on either path
WebhookPayOS(code, status) ==
    /\ WebhookResponse(code, status) \in {200, 500}
    /\ UNCHANGED vars

\* router.post('/check-payos/:orderCode'): when the gateway reports PAID the
\* route evaluates `Payment.findOne(...)` with `Payment` unbound and answers
\* 500; otherwise it answers 200 with the gateway's status.
CheckPayOSResponse(success, status) ==
    IF success /\ status = "PAID" THEN 500 ELSE 200

\* the polling route writes nothing on either path
CheckPayOS(success, status) ==
    /\ CheckPayOSResponse(success, status) \in {200, 500}
    /\ UNCHANGED vars

----------------------------------------------------------------------------
(* Outbound proxies: the Proxy model and the admin proxies router *)

\* proxies in the collection
NumProxies == 2
\* auto-assign runs in one behaviour (each may overlap the others)
NumAa == 2

ProxyIds == 1..NumProxies
AaIds == 1..NumAa

\* every upstream key, in the order ApiProvider.find() yields the providers
UpstreamKeys == {"AIza-1", "sk-1"}

\* req.body.provider of auto-assign: 'all', a provider name, an unknown name
AssignFilters == {"all", "gemini", "openai", "nope"}

\* the keys auto-assign walks through: providersToProcess, then apiKeys of each
KeysToProcess(filter) ==
    IF filter = "all"
    THEN ApiProviderKeys.gemini \o ApiProviderKeys.openai \o ApiProviderKeys.claude
    ELSE IF filter \in DOMAIN ApiProviderKeys THEN ApiProviderKeys[filter]
    ELSE << >>

\* ApiProvider.find({ name: provider }) found no provider
NoProvidersFound(filter) == filter # "all" /\ filter \notin DOMAIN ApiProviderKeys

NoResult == [status |-> "none", proxy |-> 0]

IdleAa ==
    [pc |-> "idle", forceReassign |-> FALSE, todo |-> << >>, existingProxy |-> 0,
     availableProxy |-> 0, results |-> [k \in UpstreamKeys |-> NoResult], status |-> 0]

\* (mutation) the lookup of the existing proxy skips inactive proxies
MutProxiesAssignedToActive(apiKey) ==
    {x \in ProxyIds : /\ proxies[x].exists
                      /\ proxies[x].isActive
                      /\ proxies[x].assignedApiKey = apiKey}

\* Proxy.findOne({ assignedApiKey: apiKey }) can return any of these
ProxiesAssignedTo(apiKey) ==
    {x \in ProxyIds : proxies[x].exists /\ proxies[x].assignedApiKey = apiKey}

\* Proxy.findOne({ isActive: true, $or: [{assignedApiKey: null}, {assignedApiKey: ''}] })
\* can return any of these
AvailableProxies ==
    {x \in ProxyIds : /\ proxies[x].exists
                      /\ proxies[x].isActive
                      /\ proxies[x].assignedApiKey = NULL}

\* assignmentResults.push(...) for the current key; the loop moves to the next
\* key, or the handler answers 200 after the last one
PushResult(run, result) ==
    LET rest == Tail(run.todo) IN
    [run EXCEPT !.results[Head(run.todo)] = result,
                !.todo = rest,
                !.existingProxy = 0,
                !.availableProxy = 0,
                !.pc = IF rest = << >> THEN "done" ELSE "findExisting",
                !.status = IF rest = << >> THEN 200 ELSE 0]

\* router.post('/auto-assign') is entered; await ApiProvider.find(...)
AaStart(i) ==
    /\ aa[i].pc = "idle"
    /\ \A j \in AaIds : j < i => aa[j].pc # "idle"     \* slots are interchangeable
    /\ \E filter \in AssignFilters, force \in BOOLEAN :
         aa' = [aa EXCEPT ![i] =
                  IF NoProvidersFound(filter)
                  THEN [IdleAa EXCEPT !.pc = "done", !.status = 404, !.forceReassign = force]
                  ELSE IF KeysToProcess(filter) = << >>
                  THEN [IdleAa EXCEPT !.pc = "done", !.status = 200, !.forceReassign = force]
                  ELSE [IdleAa EXCEPT !.pc = "findExisting", !.forceReassign = force,
                                      !.todo = KeysToProcess(filter)]]
    /\ UNCHANGED <<keys, proxies, genVars, payVars, restVars, reqVars>>

\* const existingProxy = await Proxy.findOne({ assignedApiKey: apiKey })
AaFindExisting(i) ==
    /\ aa[i].pc = "findExisting"
    /\ LET apiKey == Head(aa[i].todo) IN
       IF ProxiesAssignedTo(apiKey) = {}
       THEN aa' = [aa EXCEPT ![i].pc = "findAvailable"]
       ELSE \E e \in ProxiesAssignedTo(apiKey) :
              aa' = [aa EXCEPT ![i] =
                       IF aa[i].forceReassign
                       THEN [@ EXCEPT !.existingProxy = e, !.pc = "unassign"]
                       ELSE PushResult(@, [status |-> "already_assigned", proxy |-> e])]
    /\ UNCHANGED <<keys, proxies, genVars, payVars, restVars, reqVars>>

\* existingProxy.assignedApiKey = null; await existingProxy.save()
AaUnassign(i) ==
    /\ aa[i].pc = "unassign"
    /\ LET e == aa[i].existingProxy IN
       IF proxies[e].exists
       THEN /\ proxies' = [proxies EXCEPT ![e].assignedApiKey = NULL]
            /\ aa' = [aa EXCEPT ![i].pc = "findAvailable"]
       ELSE /\ aa' = [aa EXCEPT ![i] = PushResult(@, [status |-> "error", proxy |-> 0])]
            /\ UNCHANGED proxies
    /\ UNCHANGED <<keys, genVars, payVars, restVars, reqVars>>

\* const availableProxy = await Proxy.findOne({ isActive: true, unassigned })
AaFindAvailable(i) ==
    /\ aa[i].pc = "findAvailable"
    /\ IF AvailableProxies = {}
       THEN aa' = [aa EXCEPT ![i] =
                     PushResult(@, [status |-> "no_proxy_available", proxy |-> 0])]
       ELSE \E a \in AvailableProxies :
              aa' = [aa EXCEPT ![i].availableProxy = a, ![i].pc = "saveAssign"]
    /\ UNCHANGED <<keys, proxies, genVars, payVars, restVars, reqVars>>

\* availableProxy.assignedApiKey = apiKey; await availableProxy.save(): a $set on
\* the document with this _id, whatever it holds by now
AaSaveAssign(i) ==
    /\ aa[i].pc = "saveAssign"
    /\ LET a == aa[i].availableProxy
           apiKey == Head(aa[i].todo) IN
       IF proxies[a].exists
       THEN /\ proxies' = [proxies EXCEPT ![a].assignedApiKey = apiKey]
            /\ aa' = [aa EXCEPT ![i] = PushResult(@, [status |-> "assigned", proxy |-> a])]
       ELSE /\ aa' = [aa EXCEPT ![i] = PushResult(@, [status |-> "error", proxy |-> 0])]
            /\ UNCHANGED proxies
    /\ UNCHANGED <<keys, genVars, payVars, restVars, reqVars>>

\* router.put('/:id'): Proxy.findByIdAndUpdate(id, updateData): the admin sets
\* isActive and assignedApiKey to whatever the body holds
AdminUpdateProxy(x, active, apiKey) ==
    /\ proxies[x].exists
    /\ proxies' = [proxies EXCEPT ![x].isActive = active, ![x].assignedApiKey = apiKey]
    /\ UNCHANGED <<keys, aa, genVars, payVars, restVars, reqVars>>

----------------------------------------------------------------------------
(* Requests through a proxy: ProxyManager.makeRequestWithProxy *)

\* makeRequestWithProxy calls in one behaviour (each may overlap the others)
NumMr == 2

MrIds == 1..NumMr

\* error.code values that shouldRetry looks for
RetryableErrors == {"ECONNREFUSED", "ETIMEDOUT", "ENOTFOUND", "ECONNRESET", "EHOSTUNREACH"}

\* errors a fetch rejects with (code, words of the message): a refused
\* connection, a reset reported in the message only, and a broken pipe
FetchErrors ==
    {[code |-> "ECONNREFUSED", message |-> <<"connect", "ECONNREFUSED">>],
     [code |-> NULL, message |-> <<"read", "ECONNRESET">>],
     [code |-> "EPIPE", message |-> <<"write", "EPIPE">>]}

NoError == [code |-> NULL, message |-> << >>]

\* error.message.includes(code)
messageIncludes(error, code) == \E x \in 1..Len(error.message) : error.message[x] = code

\* (mutation) every error is retried
MutShouldRetryAlways(error) ==
    \E code \in RetryableErrors \cup {error.code} :
        error.code = code \/ messageIncludes(error, code)

\* shouldRetry(error)
shouldRetry(error) ==
    \E code \in RetryableErrors : error.code = code \/ messageIncludes(error, code)

\* response times measured around a fetch (Date.now() - startTime), in ms
ResponseTimes == {4, 8}

\* notes of a proxy: the schema default, and the note of the auto-disable
NoNotes == [text |-> "", at |-> 0]
AutoDisabledNote(t) == [text |-> "Auto-disabled due to consecutive failures", at |-> t]

\* statistics and notes of a new proxy document (the schema defaults)
NoStats == [successCount |-> 0, failureCount |-> 0, avgResponseTime |-> 0, notes |-> NoNotes]

\* proxy.failureCount > 10
FailureThreshold == 10

\* locals of performHealthCheck: the proxies still to probe (activeProxies, in
\* the order of the find), the documents as they were read, and the result
\* pushed for each proxy ("disabled": a failed probe followed by the auto-disable)
IdleHc ==
    [pc |-> "idle", todo |-> << >>, docs |-> [x \in ProxyIds |-> NoStats],
     results |-> [x \in ProxyIds |-> "none"]]

\* locals of a call, and what it did: fetches issued through the proxy and
\* directly, statistics updates issued, what the store held for the key when the
\* call looked the proxy up (stored) and how the lookup was answered (lookup:
\* from the cache, by the store, or by a failed query)
IdleMr ==
    [pc |-> "idle", apiKey |-> NULL, proxy |-> 0, stored |-> 0, lookup |-> "none",
     agent |-> FALSE,
     error |-> NoError, responseTime |-> 0, proxied |-> 0, direct |-> 0,
     successes |-> 0, failures |-> 0, result |-> "none", thrown |-> NoError]

\* the proxy manager at rest: nothing cached, no call, no request counted
RequestIdle ==
    /\ cache = [k \in CacheKeys |-> NoEntry]
    /\ mr = [i \in MrIds |-> IdleMr]
    /\ pstats = [x \in ProxyIds |-> NoStats]
    /\ hc = IdleHc

\* the call returns the response or throws: what it measured and how its lookup
\* was answered is gone with its locals
MrReturn(call, result, thrown) ==
    [call EXCEPT !.pc = "done", !.result = result, !.thrown = thrown,
                 !.responseTime = 0, !.lookup = "none"]

\* makeRequestWithProxy(url, options, apiKey): await getProxyForApiKey(apiKey),
\* then createProxyAgent(proxy) (agentOk: the agent could be built) and the
\* fetch that is issued, direct or through the agent
MrLookup(i) ==
    /\ mr[i].pc = "idle"
    /\ \A j \in MrIds : j < i => mr[j].pc # "idle"     \* slots are interchangeable
    /\ \E apiKey \in UpstreamKeys, storeOk \in BOOLEAN, agentOk \in BOOLEAN :
         LET found == getProxyForApiKey(apiKey, storeOk)
             call == [IdleMr EXCEPT !.apiKey = apiKey, !.proxy = found.proxy,
                                    !.stored = FindProxyFor(apiKey),
                                    !.lookup = found.lookup,
                                    !.agent = found.proxy # 0 /\ agentOk]
         IN /\ cache' = found.cache
            /\ mr' = [mr EXCEPT ![i] =
                        IF call.agent
                        THEN [call EXCEPT !.pc = "proxied", !.proxied = 1]
                        ELSE [call EXCEPT !.pc = "direct", !.direct = 1]]
    /\ UNCHANGED <<keys, pstats, hc, genVars, payVars, proxyVars, restVars>>

\* await fetch(url, { ...options, agent }): the request through the proxy
\* answers (any status) or rejects; responseTime = Date.now() - startTime, which
\* only the statistics of a success use
MrProxied(i) ==
    /\ mr[i].pc = "proxied"
    /\ \E error \in FetchErrors \cup {NoError}, responseTime \in ResponseTimes :
         mr' = [mr EXCEPT ![i].error = error,
                          ![i].responseTime = IF error = NoError THEN responseTime ELSE 0,
                          ![i].pc = IF error = NoError THEN "statsOk" ELSE "statsFail"]
    /\ UNCHANGED <<keys, cache, pstats, hc, genVars, payVars, proxyVars, restVars>>

\* updateProxyStats(proxyId, success, responseTime): Proxy.findByIdAndUpdate
\* with { lastUsed, updatedAt, $inc: { successCount: 1 }, avgResponseTime:
\* responseTime } on success and { lastUsed, updatedAt, $inc: { failureCount: 1 } }
\* otherwise; the fields beside $inc are set as given.  It changes nothing when
\* the document is gone.
updateProxyStats(proxyId, success, responseTime) ==
    IF proxies[proxyId].exists
    THEN [pstats EXCEPT ![proxyId] =
            IF success THEN [@ EXCEPT !.successCount = @ + 1,
                                      !.avgResponseTime = responseTime]
                       ELSE [@ EXCEPT !.failureCount = @ + 1]]
    ELSE pstats

\* await this.updateProxyStats(proxy._id, true, responseTime); return response
MrStatsOk(i) ==
    /\ mr[i].pc = "statsOk"
    /\ pstats' = updateProxyStats(mr[i].proxy, TRUE, mr[i].responseTime)
    /\ mr' = [mr EXCEPT ![i] = MrReturn([@ EXCEPT !.successes = @ + 1], "response", NoError)]
    /\ UNCHANGED <<keys, cache, hc, genVars, payVars, proxyVars, restVars>>

\* catch: await this.updateProxyStats(proxy._id, false, responseTime); then
\* shouldRetry(error): return fetch(url, options), or throw error
MrStatsFail(i) ==
    /\ mr[i].pc = "statsFail"
    /\ pstats' = updateProxyStats(mr[i].proxy, FALSE, mr[i].responseTime)
    /\ mr' = [mr EXCEPT ![i] =
                IF shouldRetry(mr[i].error)
                THEN [@ EXCEPT !.failures = @ + 1, !.pc = "direct", !.direct = @ + 1]
                ELSE MrReturn([@ EXCEPT !.failures = @ + 1], "error", mr[i].error)]
    /\ UNCHANGED <<keys, cache, hc, genVars, payVars, proxyVars, restVars>>

\* return fetch(url, options): the direct request answers or rejects, and that
\* is what the call returns or throws
MrDirect(i) ==
    /\ mr[i].pc = "direct"
    /\ \E error \in FetchErrors \cup {NoError} :
         mr' = [mr EXCEPT ![i] =
                  MrReturn(@, IF error = NoError THEN "response" ELSE "error", error)]
    /\ UNCHANGED <<keys, cache, pstats, hc, genVars, payVars, proxyVars, restVars>>

----------------------------------------------------------------------------
(* Health check: ProxyManager.performHealthCheck and proxy.testConnection *)

\* the ids in S in ascending order (the order Proxy.find yields them)
RECURSIVE Ascending(_)
Ascending(S) ==
    IF S = {} THEN << >>
    ELSE LET x == CHOOSE y \in S : \A z \in S : y <= z
         IN <<x>> \o Ascending(S \ {x})

\* const activeProxies = await Proxy.find({ isActive: true }): the documents
\* are read here, once for the whole run
HcStart ==
    /\ hc.pc = "idle"
    /\ LET active == {x \in ProxyIds : proxies[x].exists /\ proxies[x].isActive} IN
       hc' = [IdleHc EXCEPT !.pc = IF active = {} THEN "done" ELSE "probe",
                            !.todo = Ascending(active),
                            !.docs = [x \in ProxyIds |->
                                        IF x \in active THEN pstats[x] ELSE NoStats]]
    /\ UNCHANGED <<keys, cache, mr, pstats, genVars, payVars, proxyVars, restVars>>

\* results.push(...) for the proxy just probed; the loop moves to the next
\* proxy, or the run returns after the last one
HcPush(run, result) ==
    LET x == Head(run.todo)
        rest == Tail(run.todo) IN
    [run EXCEPT !.results[x] = result,
                !.docs[x] = NoStats,
                !.todo = rest,
                !.pc = IF rest = << >> THEN "done" ELSE "probe"]

\* (mutation) the auto-disable starts at ten failures
MutExceedsThresholdAtTen(failureCount) == failureCount >= FailureThreshold

\* proxy.failureCount > 10
ExceedsThreshold(failureCount) == failureCount > FailureThreshold

\* testConnection on a probe that answered ok: successCount += 1 and the
\* running average on the document in memory
ProbedOk(doc, responseTime) ==
    [doc EXCEPT !.successCount = @ + 1,
                !.avgResponseTime = IF @ # 0 THEN (@ + responseTime) \div 2
                                            ELSE responseTime]

\* testConnection on a probe that failed: failureCount += 1 on the document in
\* memory
ProbedFailed(doc) == [doc EXCEPT !.failureCount = @ + 1]

\* const result = await proxy.testConnection() for the next proxy of the list:
\* the fetch through the proxy (ok: it answered 2xx within responseTime), the
\* update of the document in memory and `await this.save()`, which sets the
\* modified paths on the stored document and throws when that is gone; then
\* the test `!result.success && proxy.failureCount > 10`
HcProbe ==
    /\ hc.pc = "probe"
    /\ \E ok \in BOOLEAN, responseTime \in ResponseTimes :
         LET x == Head(hc.todo)
             doc == IF ok THEN ProbedOk(hc.docs[x], responseTime)
                          ELSE ProbedFailed(hc.docs[x])
         IN IF ~proxies[x].exists
            THEN /\ hc' = HcPush(hc, "error")
                 /\ UNCHANGED pstats
            ELSE /\ pstats' = [pstats EXCEPT ![x] =
                                 IF ok THEN [@ EXCEPT !.successCount = doc.successCount,
                                                      !.avgResponseTime = doc.avgResponseTime]
                                       ELSE [@ EXCEPT !.failureCount = doc.failureCount]]
                 /\ hc' = IF ok THEN HcPush(hc, "ok")
                          ELSE IF ExceedsThreshold(doc.failureCount)
                          THEN [hc EXCEPT !.pc = "disable"]
                          ELSE HcPush(hc, "fail")
    /\ UNCHANGED <<keys, cache, mr, genVars, payVars, proxyVars, restVars>>

\* await Proxy.findByIdAndUpdate(proxy._id, { isActive: false, notes:
\* `Auto-disabled due to consecutive failures at ${new Date().toISOString()}` })
HcDisable ==
    /\ hc.pc = "disable"
    /\ LET x == Head(hc.todo) IN
       /\ proxies' = IF proxies[x].exists
                     THEN [proxies EXCEPT ![x].isActive = FALSE]
                     ELSE proxies
       /\ pstats' = IF proxies[x].exists
                    THEN [pstats EXCEPT ![x].notes = AutoDisabledNote(now)]
                    ELSE pstats
       /\ hc' = HcPush(hc, "disabled")
    /\ UNCHANGED <<keys, aa, cache, mr, genVars, payVars, restVars>>

----------------------------------------------------------------------------
(* Credit use and admin credit adjustments: the keys routers *)

\* use-credit calls in one behaviour (each may overlap the others)
NumUc == 2

UcIds == 1..NumUc

\* balances explored by the admin adjustments reach from -MaxDebt up
MaxDebt == 2

\* the two routers that serve POST /use-credit
UseRoutes == {"keys", "adminKeys"}

\* req.body.amount of the keys router's use-credit (the admin keys router
\* always deducts 1)
AmountInputs == {0, 1, 2}

\* req.body.amount of update-credit and req.body.credit of the details update
AdjustInputs == {-2, -1, 1}

IdleUc == [pc |-> "idle", key |-> NULL, amount |-> 0, credit |-> 0, status |-> 0]

\* the handler answers: its locals are dead
UcRespond(call, code) == [call EXCEPT !.pc = "done", !.status = code, !.credit = 0]

\* router.post('/use-credit'): await Key.findOne(...) and the checks on the
\* document it returned
UcFind(i) ==
    /\ uc[i].pc = "idle"
    /\ \A j \in UcIds : j < i => uc[j].pc # "idle"     \* slots are interchangeable
    /\ \E route \in UseRoutes, key \in Tokens, amt \in AmountInputs :
         LET amount == IF route = "keys" THEN amt ELSE 1
             call == [IdleUc EXCEPT !.key = key, !.amount = amount]
         IN
         /\ route = "adminKeys" => amt = 1
         /\ uc' = [uc EXCEPT ![i] =
              IF route = "keys"
              THEN IF key = NoToken THEN UcRespond(call, 400)
                   ELSE IF key \notin StoredKeys THEN UcRespond(call, 404)
                   ELSE IF ~keys[key].isActive THEN UcRespond(call, 403)
                   ELSE IF amount <= 0 THEN UcRespond(call, 400)
                   ELSE IF keys[key].credit < amount THEN UcRespond(call, 402)
                   ELSE [call EXCEPT !.pc = "save", !.credit = keys[key].credit]
              ELSE IF key \notin StoredKeys \/ ~keys[key].isActive THEN UcRespond(call, 404)
                   ELSE IF keys[key].credit < 1 THEN UcRespond(call, 400)
                   ELSE [call EXCEPT !.pc = "save", !.credit = keys[key].credit]]
    /\ UNCHANGED <<marked, saveMode, kclock, gb, apiProvider, created, keys, del, transactions, wh, genVars, payVars, proxyVars, reqVars>>

\* foundKey.credit -= amount; await foundKey.save(): the new value is computed
\* from the document read earlier and written with $set
UcSave(i) ==
    /\ uc[i].pc = "save"
    /\ keys' = [keys EXCEPT ![uc[i].key].credit = uc[i].credit - uc[i].amount]
    /\ uc' = [uc EXCEPT ![i] = UcRespond(@, 200)]
    /\ UNCHANGED <<marked, saveMode, kclock, gb, apiProvider, created, del, transactions, wh, genVars, payVars, proxyVars, reqVars>>

\* router.post('/update-credit'): Key.findOneAndUpdate({ key }, { $inc: { credit: amount } })
UpdateCredit(key, amount) ==
    /\ key \in StoredKeys
    /\ keys[key].credit + amount \in -MaxDebt..MaxCredit + 1
    /\ keys' = [keys EXCEPT ![key].credit = @ + amount]
    /\ UNCHANGED <<genVars, payVars, proxyVars, restVars, reqVars>>

\* router.put('/:id/status'): Key.findByIdAndUpdate(id, { isActive })
UpdateStatus(key, isActive) ==
    /\ key \in StoredKeys
    /\ keys' = [keys EXCEPT ![key].isActive = isActive]
    /\ UNCHANGED <<genVars, payVars, proxyVars, restVars, reqVars>>

\* router.put('/:id/details'): Key.findByIdAndUpdate(id, { ..., credit, ... })
UpdateDetails(key, credit) ==
    /\ key \in StoredKeys
    /\ keys' = [keys EXCEPT ![key].credit = credit]
    /\ UNCHANGED <<genVars, payVars, proxyVars, restVars, reqVars>>

----------------------------------------------------------------------------
(* Proxy deletion: router.delete('/:id') of the admin proxies router *)

\* delete calls in one behaviour
NumDel == 1

DelIds == 1..NumDel

\* no document with this _id
NoProxy == [exists |-> FALSE, isActive |-> FALSE, assignedApiKey |-> NULL]

IdleDel == [pc |-> "idle", id |-> 0, status |-> 0]

\* const proxy = await Proxy.findById(id) and the checks on the document read
DelFind(d) ==
    /\ del[d].pc = "idle"
    /\ \A j \in DelIds : j < d => del[j].pc # "idle"     \* slots are interchangeable
    /\ \E id \in ProxyIds :
         del' = [del EXCEPT ![d] =
                   IF ~proxies[id].exists
                   THEN [pc |-> "done", id |-> id, status |-> 404]
                   ELSE IF proxies[id].assignedApiKey # NULL
                   THEN [pc |-> "done", id |-> id, status |-> 400]
                   ELSE [pc |-> "delete", id |-> id, status |-> 0]]
    /\ UNCHANGED <<marked, saveMode, kclock, gb, apiProvider, created, keys, uc, transactions, wh, genVars, payVars, proxyVars, reqVars>>

\* await Proxy.findByIdAndDelete(id): removes the document with this _id,
\* whatever it holds by now
DelRemove(d) ==
    /\ del[d].pc = "delete"
    /\ proxies' = [proxies EXCEPT ![del[d].id] = NoProxy]
    /\ del' = [del EXCEPT ![d].pc = "done", ![d].status = 200]
    /\ UNCHANGED <<marked, saveMode, kclock, gb, apiProvider, created, keys, aa, uc, transactions, wh, genVars, payVars, reqVars>>

----------------------------------------------------------------------------
(* The webhook of the single-file server: app.post('/api/payment/webhook') *)

\* webhook calls in one behaviour (each may overlap the others)
NumWh == 2

WhIds == 1..NumWh

\* webhookData.data.orderCode
OrderCodes == {1, 2}

\* webhookData.data.amount
WebhookAmounts == {1000, 1500}

\* VND per credit of this server's orders
LegacyRate == 1000

IdleWh == [pc |-> "idle", orderCode |-> 0, key |-> NULL, credit |-> 0, status |-> 0]

\* Math.floor(amount / 1000)
CreditOfAmount(amount) == amount \div LegacyRate

\* the handler is entered with a payload; no signature is read. A payload with
\* code '00' and status PAID: await Transaction.findOne({ orderId: orderCode })
WhFind(i) ==
    /\ wh[i].pc = "idle"
    /\ \A j \in WhIds : j < i => wh[j].pc # "idle"     \* slots are interchangeable
    /\ \E code \in {"00", "01"}, st \in {"PAID", "PENDING"}, orderCode \in OrderCodes,
          amount \in WebhookAmounts, key \in {KeyA, KeyX} :
         wh' = [wh EXCEPT ![i] =
                  IF code # "00" \/ st # "PAID" \/ orderCode \in transactions
                  THEN [IdleWh EXCEPT !.pc = "done", !.status = 200]
                  ELSE [IdleWh EXCEPT !.pc = "grant", !.orderCode = orderCode,
                                      !.key = key, !.credit = CreditOfAmount(amount)]]
    /\ UNCHANGED <<marked, saveMode, kclock, gb, apiProvider, created, keys, uc, del, transactions, genVars, payVars, proxyVars, reqVars>>

\* await Key.updateOne({ key }, { $inc: { credit: credit } })
WhGrant(i) ==
    /\ wh[i].pc = "grant"
    /\ keys' = IF wh[i].key \in StoredKeys THEN IncCredit(wh[i].key, wh[i].credit) ELSE keys
    /\ wh' = [wh EXCEPT ![i].pc = "record"]
    /\ UNCHANGED <<marked, saveMode, kclock, gb, apiProvider, created, uc, del, transactions, genVars, payVars, proxyVars, reqVars>>

\* await newTransaction.save(): orderId is unique, a duplicate throws and the
\* handler answers 500
WhRecord(i) ==
    /\ wh[i].pc = "record"
    /\ transactions' = transactions \cup {wh[i].orderCode}
    /\ wh' = [wh EXCEPT ![i].pc = "done", ![i].key = NULL, ![i].credit = 0,
                        ![i].status = IF wh[i].orderCode \in transactions THEN 500 ELSE 200]
    /\ UNCHANGED <<marked, saveMode, kclock, gb, apiProvider, created, keys, uc, del, genVars, payVars, proxyVars, reqVars>>

----------------------------------------------------------------------------
(* createPayment as a call with a result *)

\* credit amounts offered to createPayment on its own
CreateInputs == {-1, 0, 1, 2, 10001, 10002}

\* BankInfo.getActiveBankInfo() (or defaultBankInfo)
BankInfo == [accountNumber |-> "0123456789", accountName |-> "NGUYEN VAN A",
             bankName |-> "Vietcombank"]

\* generateTransferContent(userKey, paymentId): `NAPCREDIT ${keyShort} ${paymentShort}`
generateTransferContent(userKey, paymentId) ==
    [tag |-> "NAPCREDIT", key |-> userKey, payment |-> paymentId]

NoContent == [tag |-> "none", key |-> NULL, payment |-> 0]

\* a URL or QR payload: the hosted checkout's, or the manual one built from the
\* bank account, the amount and the transfer content
NoLink == [kind |-> "none", account |-> NULL, amount |-> 0, content |-> NoContent]
PayOSLink == [kind |-> "payos", account |-> NULL, amount |-> 0, content |-> NoContent]

\* generatePaymentUrl(paymentData, bankInfo)
generatePaymentUrl(amount, content) ==
    [kind |-> "manual-url", account |-> BankInfo.accountNumber,
     amount |-> amount, content |-> content]

\* (mutation) a QR payload that leaves the amount out
MutQRDataWithoutAmount(amount, content) ==
    [kind |-> "manual-qr", account |-> BankInfo.accountNumber,
     amount |-> 0, content |-> content]

\* generateQRData(paymentData, bankInfo)
generateQRData(amount, content) ==
    [kind |-> "manual-qr", account |-> BankInfo.accountNumber,
     amount |-> amount, content |-> content]

NoTransferInfo == [accountNumber |-> NULL, amount |-> 0, content |-> NoContent]

\* the error createPayment throws for these arguments, NULL when it goes through
createPaymentError(userKey, creditAmount) ==
    IF userKey = NoToken \/ creditAmount = 0 THEN "User key and credit amount are required"
    ELSE IF ~isValidCreditAmount(creditAmount) THEN "Invalid credit amount"
    ELSE IF ~(userKey \in DOMAIN keys /\ keys[userKey].isActive)
         THEN "Invalid or inactive user key"
    ELSE IF getPriceForCredit(creditAmount) = 0 THEN "Unable to get price for credit amount"
    ELSE IF creditAmount < 1 THEN "Payment validation failed"     \* creditAmount: min 1
    ELSE NULL

NoCreated ==
    [called |-> FALSE, userKey |-> NULL, creditAmount |-> 0, error |-> NULL,
     paymentId |-> 0, payosOk |-> FALSE, payUrl |-> NoLink, qrData |-> NoLink,
     transferInfo |-> NoTransferInfo]

\* PaymentService.createPayment(userKey, creditAmount) with what it returns or
\* throws
CreatePaymentCall(userKey, creditAmount, payosOk) ==
    /\ issued < MaxPayments
    /\ LET err == createPaymentError(userKey, creditAmount)
           price == getPriceForCredit(creditAmount)
           paymentId == issued + 1
           content == generateTransferContent(userKey, paymentId)
           call == [NoCreated EXCEPT !.called = TRUE, !.userKey = userKey,
                                     !.creditAmount = creditAmount, !.payosOk = payosOk]
       IN
       IF err # NULL
       THEN /\ created' = [call EXCEPT !.error = err]
            /\ UNCHANGED <<payments, issued>>
       ELSE /\ issued' = paymentId
            /\ payments' = [payments EXCEPT ![paymentId] =
                  [exists |-> TRUE, userKey |-> userKey, creditAmount |-> creditAmount,
                   price |-> price,
                   status |-> "pending", transactionId |-> NoTx, completedAt |-> -1,
                   expiredAt |-> now + ExpiryDelay,
                   orderCode |-> now,
                   payUrl |-> IF payosOk THEN "payos" ELSE "manual"]]
            /\ created' = [call EXCEPT
                  !.paymentId = paymentId,
                  !.payUrl = IF payosOk THEN PayOSLink ELSE generatePaymentUrl(price, content),
                  !.qrData = IF payosOk THEN PayOSLink ELSE generateQRData(price, content),
                  !.transferInfo = [accountNumber |-> BankInfo.accountNumber,
                                    amount |-> price, content |-> content]]
    /\ UNCHANGED <<marked, saveMode, kclock, gb, apiProvider, keys, now, cp, uc, del, transactions, wh, genVars, proxyVars, reqVars>>

----------------------------------------------------------------------------
(* Upstream key selection: ApiKeyManager *)

\* getBestApiKey calls in one behaviour (each may overlap the others)
NumGb == 3
\* last value of the key manager's clock
MaxStamp == 2
\* last document version (__v) at which the admin still edits the key list
MaxVersion == 4

GbIds == 1..NumGb

\* upstream keys of the provider
K1 == "AIza-1"
K2 == "AIza-2"
ManagedKeys == {K1, K2}

\* a Date field that is null or undefined
NoDate == -1

\* `date || new Date(0)`: the value the comparators sort by
OrEpoch(date) == IF date = NoDate THEN 0 ELSE date

\* the keyStatus entry syncKeyStatus pushes for a key without one (the schema
\* defaults fill lastError, lastErrorTime and lastUsed with null)
NewKeyStatus(key) ==
    [key |-> key, isActive |-> TRUE, quotaExceeded |-> FALSE,
     lastUsed |-> NoDate, lastErrorTime |-> NoDate, lastError |-> NULL, requestCount |-> 0]

\* ApiProvider.findOne found nothing
NoProvider == [exists |-> FALSE, apiKeys |-> << >>, keyStatus |-> << >>, v |-> 0]

\* providerName arguments: the provider in any letter case, or an unknown one
ProviderNames == {"gemini", "Gemini", "nope"}

\* ApiProvider.findOne({ name: { $regex: new RegExp(`^${providerName}$`, "i") } })
FindProvider(providerName) ==
    IF toLowerCase(providerName) = "gemini" /\ apiProvider.exists THEN apiProvider ELSE NoProvider

Keys(keyStatus) == {keyStatus[x].key : x \in 1..Len(keyStatus)}
Elems(seq) == {seq[x] : x \in 1..Len(seq)}

\* the entries syncKeyStatus pushes: one per apiKey without an entry, in order
RECURSIVE MissingEntries(_, _)
MissingEntries(apiKeys, have) ==
    IF apiKeys = << >> THEN << >>
    ELSE IF Head(apiKeys) \in have
         THEN MissingEntries(Tail(apiKeys), have)
         ELSE <<NewKeyStatus(Head(apiKeys))>>
                 \o MissingEntries(Tail(apiKeys), have \cup {Head(apiKeys)})

InApiKeys(doc, entry) == entry.key \in Elems(doc.apiKeys)

\* (mutation) an entry is pushed for every apiKey, with or without one
MutSyncPushesEveryKey(doc) ==
    LET added == [x \in 1..Len(doc.apiKeys) |-> NewKeyStatus(doc.apiKeys[x])]
        Keep(entry) == InApiKeys(doc, entry)
    IN [keyStatus |-> SelectSeq(doc.keyStatus \o added, Keep),
        added |-> added,
        updated |-> added # << >>]

\* syncKeyStatus(provider) on the document in memory: push the missing
\* entries, then keep the entries whose key is still in apiKeys
syncKeyStatus(doc) ==
    LET added == MissingEntries(doc.apiKeys, Keys(doc.keyStatus))
        Keep(entry) == InApiKeys(doc, entry)
    IN [keyStatus |-> SelectSeq(doc.keyStatus \o added, Keep),
        added |-> added,
        updated |-> added # << >>]

\* (mutation) the comparator puts never-used keys last
MutByLastUsedNullLast(keyInfo) == IF keyInfo.lastUsed = NoDate THEN MaxStamp + 1 ELSE keyInfo.lastUsed

\* (mutation) the fallback set takes every key, active or not
MutIsActiveKeyAny(keyInfo) == keyInfo.isActive \/ ~keyInfo.isActive

IsAvailable(keyInfo) == keyInfo.isActive /\ ~keyInfo.quotaExceeded
IsActiveKey(keyInfo) == keyInfo.isActive
ByLastUsed(keyInfo) == OrEpoch(keyInfo.lastUsed)
ByLastErrorTime(keyInfo) == OrEpoch(keyInfo.lastErrorTime)

\* list.sort(comparator)[0], given the value the comparator sorts each entry
\* by: the sort is stable, so this is the first entry among those with the
\* least value
FirstLeast(list, by) ==
    list[CHOOSE x \in 1..Len(list) :
            \A y \in 1..Len(list) : by[x] < by[y] \/ (by[x] = by[y] /\ x <= y)]

\* what getBestApiKey returns or throws for the synced keyStatus
SelectKey(keyStatus) ==
    LET availableKeys == SelectSeq(keyStatus, IsAvailable)
        fallbackKeys == SelectSeq(keyStatus, IsActiveKey)
        used == [x \in 1..Len(availableKeys) |-> ByLastUsed(availableKeys[x])]
        failed == [x \in 1..Len(fallbackKeys) |-> ByLastErrorTime(fallbackKeys[x])]
    IN IF availableKeys # << >>
       THEN [key |-> FirstLeast(availableKeys, used).key, error |-> NULL]
       ELSE IF fallbackKeys # << >>
       THEN [key |-> FirstLeast(fallbackKeys, failed).key, error |-> NULL]
       ELSE [key |-> NULL, error |-> "All API keys are exhausted or inactive"]

IdleGb ==
    [pc |-> "idle", name |-> NULL, read |-> NoProvider, synced |-> << >>, added |-> << >>,
     key |-> NULL, error |-> NULL, skip |-> {}]

\* the call returns or throws: what stays is the document it read, the list
\* it selected from and the outcome
GbReturn(call, outcome) ==
    [call EXCEPT !.pc = "done", !.key = outcome.key, !.error = outcome.error,
                 !.added = << >>]

\* the keys a call starting now must not return: those with a recorded quota
\* error, as long as the store shows another key active and not quota-exceeded
MustSkip ==
    IF \E x \in 1..Len(apiProvider.keyStatus) :
           IsAvailable(apiProvider.keyStatus[x]) /\ apiProvider.keyStatus[x].key \notin marked
    THEN marked ELSE {}

\* getBestApiKey(providerName): await ApiProvider.findOne(...), the no-keys
\* test and syncKeyStatus up to its save; without a save the selection follows
\* at once
GbFind(i) ==
    /\ gb[i].pc = "idle"
    /\ \A j \in GbIds : j < i => gb[j].pc # "idle"     \* slots are interchangeable
    /\ \E name \in ProviderNames :
         LET doc == FindProvider(name)
             sync == syncKeyStatus(doc)
             call == [IdleGb EXCEPT !.name = name, !.read = doc, !.skip = MustSkip]
         IN gb' = [gb EXCEPT ![i] =
              IF ~doc.exists \/ doc.apiKeys = << >>
              THEN GbReturn(call, [key |-> NULL, error |-> "No API keys configured"])
              ELSE IF sync.updated
              THEN [call EXCEPT !.pc = "save", !.synced = sync.keyStatus, !.added = sync.added]
              ELSE GbReturn([call EXCEPT !.synced = sync.keyStatus],
                            SelectKey(sync.keyStatus))]
    /\ UNCHANGED <<keys, apiProvider, kclock, saveMode, marked, uc, del, transactions, wh,
                   created, genVars, payVars, proxyVars, reqVars>>

\* await provider.save() in syncKeyStatus, then the selection from the list in
\* memory.  The array was pushed to and then reassigned.  When the filter
\* dropped an entry the new array differs from the old one and the save sends
\* the whole array ($set, guarded by the document version); when it dropped
\* nothing the save sends either the pushed entries ($push) or the whole array
GbSave(i) ==
    /\ gb[i].pc = "save"
    /\ IF saveMode = "push" /\ gb[i].synced = gb[i].read.keyStatus \o gb[i].added
       THEN /\ apiProvider' = [apiProvider EXCEPT !.keyStatus = @ \o gb[i].added, !.v = @ + 1]
            /\ gb' = [gb EXCEPT ![i] = GbReturn(@, SelectKey(gb[i].synced))]
       ELSE IF apiProvider.v = gb[i].read.v
       THEN /\ apiProvider' = [apiProvider EXCEPT !.keyStatus = gb[i].synced, !.v = @ + 1]
            /\ gb' = [gb EXCEPT ![i] = GbReturn(@, SelectKey(gb[i].synced))]
       ELSE /\ gb' = [gb EXCEPT ![i] = GbReturn(@, [key |-> NULL, error |-> "VersionError"])]
            /\ UNCHANGED apiProvider
    /\ UNCHANGED <<keys, kclock, saveMode, marked, uc, del, transactions, wh,
                   created, genVars, payVars, proxyVars, reqVars>>

\* 'keyStatus.key': apiKey with the positional `keyStatus.$`: the first entry
\* of the key, 0 when the filter matches nothing
FirstEntry(keyStatus, apiKey) ==
    IF apiKey \in Keys(keyStatus)
    THEN CHOOSE x \in 1..Len(keyStatus) :
            /\ keyStatus[x].key = apiKey
            /\ \A y \in 1..x - 1 : keyStatus[y].key # apiKey
    ELSE 0

\* errorType of markKeyError: a 429/quota error, an invalid key, anything else
ErrorTypes == {"quota_exceeded", "invalid_key", "other"}

\* errorMessage of markKeyError, as the words of the message: a timeout, an
\* HTTP 429, an HTTP 401, and a message with both a quota and an invalid signal
ErrorMessages ==
    {<<"timeout">>, <<"429", "Too", "Many", "Requests">>, <<"401", "Unauthorized">>,
     <<"quota", "project", "invalid">>}

\* errorMessage.includes(word)
includes(errorMessage, word) == \E x \in 1..Len(errorMessage) : errorMessage[x] = word

\* (mutation) an invalid-key error does not count as a quota error
MutSignalsQuotaUnlessInvalid(errorType, errorMessage) ==
    /\ errorType = "quota_exceeded" \/ includes(errorMessage, "429")
           \/ includes(errorMessage, "quota")
    /\ ~(errorType = "invalid_key" \/ includes(errorMessage, "invalid"))

\* errorType === 'quota_exceeded' || errorMessage.includes('429') ||
\* errorMessage.includes('quota')
SignalsQuota(errorType, errorMessage) ==
    errorType = "quota_exceeded" \/ includes(errorMessage, "429")
        \/ includes(errorMessage, "quota")

\* errorType === 'invalid_key' || errorMessage.includes('invalid') ||
\* errorMessage.includes('401')
SignalsInvalid(errorType, errorMessage) ==
    errorType = "invalid_key" \/ includes(errorMessage, "invalid")
        \/ includes(errorMessage, "401")

\* markKeyError(providerName, apiKey, errorType, errorMessage): one updateOne
markKeyError(apiKey, errorType, errorMessage) ==
    /\ kclock < MaxStamp
    /\ kclock' = kclock + 1
    /\ LET x == FirstEntry(apiProvider.keyStatus, apiKey) IN
       IF apiProvider.exists /\ x # 0
       THEN /\ apiProvider' = [apiProvider EXCEPT !.keyStatus[x] =
                  [@ EXCEPT !.lastError = errorMessage,
                            !.lastErrorTime = kclock',
                            !.quotaExceeded = IF SignalsQuota(errorType, errorMessage)
                                              THEN TRUE ELSE @,
                            !.isActive = IF SignalsInvalid(errorType, errorMessage)
                                         THEN FALSE ELSE @]]
            /\ marked' = IF SignalsQuota(errorType, errorMessage)
                          THEN marked \cup {apiKey} ELSE marked
       ELSE UNCHANGED <<apiProvider, marked>>
    /\ UNCHANGED <<keys, gb, saveMode, uc, del, transactions, wh,
                   created, genVars, payVars, proxyVars, reqVars>>

\* markKeyUsed(providerName, apiKey): one updateOne
markKeyUsed(apiKey) ==
    /\ kclock < MaxStamp
    /\ kclock' = kclock + 1
    /\ LET x == FirstEntry(apiProvider.keyStatus, apiKey) IN
       IF apiProvider.exists /\ x # 0
       THEN apiProvider' = [apiProvider EXCEPT !.keyStatus[x] =
                  [@ EXCEPT !.lastUsed = kclock', !.lastError = NULL,
                            !.lastErrorTime = NoDate, !.requestCount = @ + 1]]
       ELSE UNCHANGED apiProvider
    /\ UNCHANGED <<keys, gb, saveMode, marked, uc, del, transactions, wh,
                   created, genVars, payVars, proxyVars, reqVars>>

\* (mutation) the reset also reactivates every key
MutResetEntryReactivates(keyInfo) ==
    [keyInfo EXCEPT !.quotaExceeded = FALSE, !.lastError = NULL, !.lastErrorTime = NoDate,
                    !.isActive = TRUE]

\* $set of 'keyStatus.$[].quotaExceeded', '.lastError', '.lastErrorTime' on
\* one entry
ResetEntry(keyInfo) ==
    [keyInfo EXCEPT !.quotaExceeded = FALSE, !.lastError = NULL, !.lastErrorTime = NoDate]

\* resetDailyQuotas(providerName): one updateOne over every entry of the
\* provider the name matches
resetDailyQuotas(providerName) ==
    /\ IF FindProvider(providerName).exists
       THEN /\ apiProvider' = [apiProvider EXCEPT !.keyStatus =
                  [x \in 1..Len(@) |-> ResetEntry(@[x])]]
            /\ marked' = {}
       ELSE UNCHANGED <<apiProvider, marked>>
    /\ UNCHANGED <<keys, gb, kclock, saveMode, uc, del, transactions, wh,
                   created, genVars, payVars, proxyVars, reqVars>>

\* app.delete('/api/providers/:providerId/keys/:apiKey'): the admin removes a
\* key from apiKeys; keyStatus is not touched
DeleteApiKey(apiKey) ==
    /\ apiProvider.exists
    /\ apiKey \in Elems(apiProvider.apiKeys)
    /\ apiProvider.v < MaxVersion
    /\ LET Other(k) == k # apiKey IN
       apiProvider' = [apiProvider EXCEPT !.apiKeys = SelectSeq(@, Other), !.v = @ + 1]
    /\ UNCHANGED <<keys, gb, kclock, saveMode, marked, uc, del, transactions, wh,
                   created, genVars, payVars, proxyVars, reqVars>>

\* app.post('/api/providers/:providerId/keys'): the admin adds a key
AddApiKey(apiKey) ==
    /\ apiProvider.exists
    /\ apiKey \notin Elems(apiProvider.apiKeys)
    /\ apiProvider.v < MaxVersion
    /\ apiProvider' = [apiProvider EXCEPT !.apiKeys = Append(@, apiKey), !.v = @ + 1]
    /\ UNCHANGED <<keys, gb, kclock, saveMode, marked, uc, del, transactions, wh,
                   created, genVars, payVars, proxyVars, reqVars>>

----------------------------------------------------------------------------
(* Specifications *)

\* the generate side at rest
GenIdle ==
    /\ gen = [r \in Reqs |-> IdleReq]
    /\ variant \in Variants

\* the payment side at rest
PayIdle ==
    /\ payments = [p \in PaymentIds |-> NoPayment]
    /\ issued = 0
    /\ now = 0
    /\ cp = [i \in CpIds |-> IdleCp]

\* KEY-A is active with balance b, KEY-B is inactive with balance 1
KeysInit(b) ==
    /\ keys = [k \in StoredKeys |->
                 IF k = KeyA THEN [isActive |-> TRUE, credit |-> b]
                             ELSE [isActive |-> FALSE, credit |-> 1]]
    /\ ledger = [k \in StoredKeys |->
                 [ZeroLedger EXCEPT !.b0 = IF k = KeyA THEN b ELSE 1]]

\* the proxy side at rest: every proxy unassigned, active or not
ProxyIdle ==
    /\ proxies \in [ProxyIds -> {[exists |-> TRUE, isActive |-> act, assignedApiKey |-> NULL] :
                                   act \in BOOLEAN}]
    /\ aa = [i \in AaIds |-> IdleAa]

\* the proxy side at rest with every proxy active
ProxyQuiet ==
    /\ proxies = [x \in ProxyIds |->
                    [exists |-> TRUE, isActive |-> TRUE, assignedApiKey |-> NULL]]
    /\ aa = [i \in AaIds |-> IdleAa]

\* the provider holds K1, already synced
SyncedProvider ==
    [exists |-> TRUE, apiKeys |-> <<K1>>, keyStatus |-> <<NewKeyStatus(K1)>>, v |-> 0]

\* the key manager at rest
KeysIdle ==
    /\ apiProvider = SyncedProvider
    /\ gb = [i \in GbIds |-> IdleGb]
    /\ kclock = 0
    /\ saveMode = "set"
    /\ marked = {}

\* no handler of the other routes has started
RestIdle ==
    /\ RequestIdle
    /\ uc = [i \in UcIds |-> IdleUc]
    /\ del = [d \in DelIds |-> IdleDel]
    /\ transactions = {}
    /\ wh = [i \in WhIds |-> IdleWh]
    /\ created = NoCreated
    /\ KeysIdle

GenInit ==
    /\ \E b \in 0..MaxCredit : KeysInit(b)
    /\ GenIdle
    /\ PayIdle
    /\ ProxyQuiet
    /\ RestIdle

GenNext ==
    \/ \E r \in Reqs : GenStart(r)
    \/ \E r \in Reqs : GenReserve(r)
    \/ \E r \in Reqs : GenProvider(r)
    \/ \E r \in Reqs : GenProxyLookup(r)
    \/ \E r \in Reqs : GenUpstream(r)
    \/ \E r \in Reqs : GenRefund(r)
    \/ \E k \in StoredKeys : GrantCredit(k, 1)

SpecGen == GenInit /\ [][GenNext]_vars

PayInit ==
    /\ KeysInit(0)
    /\ gen = [r \in Reqs |-> IdleReq]
    /\ variant = "final"
    /\ PayIdle
    /\ ProxyQuiet
    /\ RestIdle

PayNext ==
    \/ \E k \in Tokens, c \in CreditInputs, ok \in BOOLEAN : CreatePayment(k, c, ok)
    \/ Tick
    \/ \E i \in CpIds : CpFind(i)
    \/ \E i \in CpIds : CpMarkAsFailed(i)
    \/ \E i \in CpIds : CpGrant(i)
    \/ \E i \in CpIds : CpMarkAsCompleted(i)
    \/ Cleanup
    \/ \E p \in PaymentIds : TTLDelete(p)
    \/ \E c \in {"00", "01"}, st \in {"PAID", "PENDING", "CANCELLED"} : WebhookPayOS(c, st)
    \/ \E ok \in BOOLEAN, st \in {"PAID", "PENDING", "CANCELLED"} : CheckPayOS(ok, st)

SpecPay == PayInit /\ [][PayNext]_vars

AssignInit ==
    /\ KeysInit(0)
    /\ gen = [r \in Reqs |-> IdleReq]
    /\ variant = "final"
    /\ PayIdle
    /\ ProxyIdle
    /\ RestIdle

\* auto-assign runs alone
AssignNext ==
    \/ \E i \in AaIds : AaStart(i)
    \/ \E i \in AaIds : AaFindExisting(i)
    \/ \E i \in AaIds : AaUnassign(i)
    \/ \E i \in AaIds : AaFindAvailable(i)
    \/ \E i \in AaIds : AaSaveAssign(i)

SpecAssign == AssignInit /\ [][AssignNext]_vars

\* auto-assign runs and admin updates
ProxyNext ==
    \/ AssignNext
    \/ \E x \in ProxyIds, act \in BOOLEAN, k \in UpstreamKeys \cup {NULL} :
          AdminUpdateProxy(x, act, k)

SpecProxy == AssignInit /\ [][ProxyNext]_vars

\* auto-assign runs and proxy deletions
DeleteNext ==
    \/ AssignNext
    \/ \E d \in DelIds : DelFind(d)
    \/ \E d \in DelIds : DelRemove(d)

SpecDelete == AssignInit /\ [][DeleteNext]_vars

\* payments are created and webhook calls arrive at both webhook routes
WebhookNext ==
    \/ \E k \in Tokens, c \in CreditInputs, ok \in BOOLEAN : CreatePayment(k, c, ok)
    \/ \E c \in {"00", "01"}, st \in {"PAID", "PENDING", "CANCELLED"} : WebhookPayOS(c, st)
    \/ \E i \in WhIds : WhFind(i)
    \/ \E i \in WhIds : WhGrant(i)
    \/ \E i \in WhIds : WhRecord(i)

SpecWebhook == PayInit /\ [][WebhookNext]_vars

\* createPayment calls, with the active key turned off and on in between
CreateNext ==
    \/ \E k \in Tokens, c \in CreateInputs, ok \in BOOLEAN : CreatePaymentCall(k, c, ok)
    \/ \E act \in BOOLEAN : UpdateStatus(KeyA, act)

SpecCreate == PayInit /\ [][CreateNext]_vars

\* Date values of the documents a selection starts from
Stamps == {NoDate} \cup (1..MaxStamp)

\* keyStatus entries of a key, in every condition
KeyStatusOf(key) ==
    {[key |-> key, isActive |-> act, quotaExceeded |-> q, lastUsed |-> u, lastErrorTime |-> t,
      lastError |-> IF t = NoDate THEN NULL ELSE <<"timeout">>,
      requestCount |-> IF u = NoDate THEN 0 ELSE 1] :
        act \in BOOLEAN, q \in BOOLEAN, u \in Stamps, t \in Stamps}

\* ApiProvider documents a selection starts from: none, one without keys,
\* one whose only key is the second while its keyStatus still holds the first,
\* and one with both keys whose keyStatus covers none, the first or both of
\* them
StoredProviders ==
    {NoProvider, [exists |-> TRUE, apiKeys |-> << >>, keyStatus |-> << >>, v |-> 0]}
    \cup {[exists |-> TRUE, apiKeys |-> <<K2>>, keyStatus |-> <<a>>, v |-> 0] :
            a \in KeyStatusOf(K1)}
    \cup {[exists |-> TRUE, apiKeys |-> <<K1, K2>>, keyStatus |-> ks, v |-> 0] :
            ks \in {<< >>} \cup {<<a>> : a \in KeyStatusOf(K1)}
                          \cup {<<a, b>> : a \in KeyStatusOf(K1), b \in KeyStatusOf(K2)}}

\* everything at rest but the key manager, which starts from one of docs
ManagerInit(docs) ==
    /\ KeysInit(0)
    /\ gen = [r \in Reqs |-> IdleReq]
    /\ variant = "final"
    /\ PayIdle
    /\ ProxyQuiet
    /\ uc = [i \in UcIds |-> IdleUc]
    /\ del = [d \in DelIds |-> IdleDel]
    /\ transactions = {}
    /\ wh = [i \in WhIds |-> IdleWh]
    /\ created = NoCreated
    /\ RequestIdle
    /\ apiProvider \in docs
    /\ gb = [i \in GbIds |-> IdleGb]
    /\ kclock = 0
    /\ saveMode \in {"push", "set"}
    /\ marked = {}

SelectInit == ManagerInit(StoredProviders)

\* getBestApiKey calls on a stored provider
SelectNext ==
    \/ \E i \in GbIds : GbFind(i)
    \/ \E i \in GbIds : GbSave(i)

SpecSelect == SelectInit /\ [][SelectNext]_vars

\* getBestApiKey calls with the marks, the daily reset and the admin adding
\* the second key
KeysNext ==
    \/ SelectNext
    \/ \E k \in ManagedKeys, t \in ErrorTypes : markKeyError(k, t, <<"timeout">>)
    \/ \E k \in ManagedKeys : markKeyUsed(k)
    \/ resetDailyQuotas("gemini")
    \/ AddApiKey(K2)

SpecKeys == ManagerInit({SyncedProvider}) /\ [][KeysNext]_vars

\* the first proxy is active and assigned to the first gemini key
AssignedPool ==
    [x \in ProxyIds |->
        [exists |-> TRUE, isActive |-> TRUE,
         assignedApiKey |-> IF x = 1 THEN K1 ELSE NULL]]

\* the Proxy collection is empty
EmptyPool == [x \in ProxyIds |-> NoProxy]

RequestInit ==
    /\ KeysInit(0)
    /\ gen = [r \in Reqs |-> IdleReq]
    /\ variant = "final"
    /\ PayIdle
    /\ proxies \in {AssignedPool, EmptyPool}
    /\ aa = [i \in AaIds |-> IdleAa]
    /\ RestIdle

\* requests through the proxy manager while the admin edits the first proxy
RequestNext ==
    \/ \E i \in MrIds : MrLookup(i)
    \/ \E i \in MrIds : MrProxied(i)
    \/ \E i \in MrIds : MrStatsOk(i)
    \/ \E i \in MrIds : MrStatsFail(i)
    \/ \E i \in MrIds : MrDirect(i)
    \/ \E act \in BOOLEAN, k \in {K1, NULL} : AdminUpdateProxy(1, act, k)

SpecRequest == RequestInit /\ [][RequestNext]_vars

\* lookups through the proxy manager's cache while the clock advances and the
\* admin edits the first proxy
CacheNext ==
    \/ \E i \in MrIds : MrLookup(i)
    \/ \E act \in BOOLEAN, k \in {K1, NULL} : AdminUpdateProxy(1, act, k)
    \/ Tick

SpecCache == RequestInit /\ [][CacheNext]_vars

\* the gemini document with both keys synced: both fresh, or the first one
\* marked quota-exceeded
DispatchProviders ==
    {[exists |-> TRUE, apiKeys |-> <<K1, K2>>, keyStatus |-> <<a, NewKeyStatus(K2)>>, v |-> 0] :
        a \in {NewKeyStatus(K1),
                [NewKeyStatus(K1) EXCEPT !.quotaExceeded = TRUE, !.lastErrorTime = 1,
                                         !.lastError = <<"429", "Too", "Many", "Requests">>]}}

DispatchInit ==
    /\ KeysInit(MaxCredit)
    /\ GenIdle
    /\ PayIdle
    /\ proxies = AssignedPool
    /\ aa = [i \in AaIds |-> IdleAa]
    /\ uc = [i \in UcIds |-> IdleUc]
    /\ del = [d \in DelIds |-> IdleDel]
    /\ transactions = {}
    /\ wh = [i \in WhIds |-> IdleWh]
    /\ created = NoCreated
    /\ RequestIdle
    /\ apiProvider \in DispatchProviders
    /\ gb = [i \in GbIds |-> IdleGb]
    /\ kclock = 0
    /\ saveMode = "set"
    /\ marked = {}

\* generate requests with two gemini keys, one of them behind a proxy, and
\* every kind of upstream answer
DispatchNext ==
    \/ \E r \in Reqs : GenStart(r)
    \/ \E r \in Reqs : GenReserve(r)
    \/ \E r \in Reqs : GenProvider(r)
    \/ \E r \in Reqs : GenProxyLookup(r)
    \/ \E r \in Reqs : GenUpstreamAny(r)
    \/ \E r \in Reqs : GenRefund(r)

SpecDispatch == DispatchInit /\ [][DispatchNext]_vars

\* getBestApiKey calls while the admin adds and removes keys and keys are used
SyncNext ==
    \/ SelectNext
    \/ \E k \in ManagedKeys : AddApiKey(k)
    \/ \E k \in ManagedKeys : DeleteApiKey(k)
    \/ \E k \in ManagedKeys : markKeyUsed(k)

SpecSync == ManagerInit({SyncedProvider}) /\ [][SyncNext]_vars

\* ApiProvider documents the marks start from: both keys with a fresh entry
\* each, the second key not yet synced, and the first key with two entries
MarkedProviders ==
    {[exists |-> TRUE, apiKeys |-> <<K1, K2>>, keyStatus |-> ks, v |-> 0] :
        ks \in {<<NewKeyStatus(K1), NewKeyStatus(K2)>>,
                <<NewKeyStatus(K1)>>,
                <<NewKeyStatus(K1), NewKeyStatus(K2), NewKeyStatus(K1)>>}}

\* the marks and the daily reset
MarksNext ==
    \/ \E k \in ManagedKeys, t \in ErrorTypes, m \in ErrorMessages : markKeyError(k, t, m)
    \/ \E k \in ManagedKeys : markKeyUsed(k)
    \/ \E n \in ProviderNames : resetDailyQuotas(n)

SpecMarks == ManagerInit(MarkedProviders) /\ [][MarksNext]_vars

UseInit ==
    /\ \E b \in 0..MaxCredit : KeysInit(b)
    /\ gen = [r \in Reqs |-> IdleReq]
    /\ variant = "final"
    /\ PayIdle
    /\ ProxyQuiet
    /\ RestIdle

\* use-credit calls alone
UseNext ==
    \/ \E i \in UcIds : UcFind(i)
    \/ \E i \in UcIds : UcSave(i)

SpecUse == UseInit /\ [][UseNext]_vars

\* reservations and refunds of generate, payment grants and admin adjustments
\* of the active key
CreditNext ==
    \/ \E r \in Reqs : GenStart(r)
    \/ \E r \in Reqs : GenReserve(r)
    \/ \E r \in Reqs : GenProvider(r)
    \/ \E r \in Reqs : GenProxyLookup(r)
    \/ \E r \in Reqs : GenUpstream(r)
    \/ \E r \in Reqs : GenRefund(r)
    \/ \E k \in StoredKeys : GrantCredit(k, 1)
    \/ \E a \in AdjustInputs : UpdateCredit(KeyA, a)
    \/ \E c \in AdjustInputs : UpdateDetails(KeyA, c)

SpecCredit == UseInit /\ [][CreditNext]_vars


----------------------------------------------------------------------------
(* Properties of the generate handler and the credit ledger (SpecGen) *)

\* requests whose reservation on key k succeeded
ReservedOn(k) == {r \in Reqs : gen[r].updatedKey.key = k}

\* ... and have not answered yet
InFlightOn(k) == {r \in ReservedOn(k) : gen[r].pc # "done"}

\* ... that were refunded
RefundedOn(k) == {r \in ReservedOn(k) : gen[r].refunds > 0}

\* ... that were dispatched upstream
DispatchedOn(k) == {r \in ReservedOn(k) : gen[r].dispatched > 0}

\* ... that answered 200
CommittedOn(k) == {r \in ReservedOn(k) : gen[r].pc = "done" /\ gen[r].status = 200}

\* C1 - No overdraft: for a key with starting balance b0, the number of
\* reservations that succeeded, less the grants and refunds applied since, never
\* exceeds b0, and the balance is never negative.
C1_NoOverdraft ==
    \A k \in StoredKeys :
        /\ keys[k].credit >= 0
        /\ Cardinality(ReservedOn(k)) <= ledger[k].b0 + ledger[k].granted + Cardinality(RefundedOn(k))
        /\ keys[k].credit = ledger[k].b0 + ledger[k].granted + Cardinality(RefundedOn(k))
                            - Cardinality(ReservedOn(k))

\* two concurrent requests raced for the last credit of KEY-A: one holds the
\* reservation, the other was rejected, and the balance is 0
C1_Witness ==
    /\ ledger[KeyA].b0 = 1 /\ ledger[KeyA].granted = 0 /\ RefundedOn(KeyA) = {}
    /\ keys[KeyA].credit = 0
    /\ \E r1, r2 \in Reqs :
         /\ r1 # r2
         /\ gen[r1].updatedKey # NoKeyDoc /\ gen[r1].pc = "provider"
         /\ gen[r2].userKey = KeyA /\ gen[r2].status = 403

\* C3 - Refund exactness: a call that reserved a credit and then failed has
\* received exactly one refund of exactly the credit it reserved, so its net
\* effect on the balance is 0; the balance always equals the starting balance
\* plus grants, less one per committed (successful) call and one per reservation
\* still in flight, however many calls have failed.
C3_RefundExactness ==
    /\ \A r \in Reqs :
         (gen[r].pc = "done" /\ gen[r].updatedKey # NoKeyDoc /\ gen[r].status # 200)
            => (gen[r].inc = 0 /\ gen[r].refunds = 1)
    /\ \A k \in StoredKeys :
         keys[k].credit = ledger[k].b0 + ledger[k].granted - Cardinality(CommittedOn(k))
                          - Cardinality(InFlightOn(k))

\* two consecutive failed calls on KEY-A have been refunded, nothing is in
\* flight, and the balance is back at its starting value
C3_Witness ==
    /\ Cardinality(RefundedOn(KeyA)) >= 2
    /\ CommittedOn(KeyA) = {} /\ ledger[KeyA].granted = 0
    /\ InFlightOn(KeyA) = {}
    /\ keys[KeyA].credit = ledger[KeyA].b0
    /\ \E r \in Reqs : gen[r].pc = "done" /\ gen[r].status = 500 /\ gen[r].dispatched = 1

\* C4 - No call is dispatched upstream without a successful reservation: a call
\* at or past the dispatch holds a reservation, a rejected call (401, 403) made
\* no upstream call, and dispatches never outnumber the credits made available.
\* With one credit, no grant and no refund, of two calls on that key at most one
\* is dispatched and the other is answered 403.
C4_DispatchNeedsReservation ==
    /\ \A r \in Reqs :
         /\ (gen[r].dispatched > 0 \/ gen[r].pc \in {"proxy", "upstream"})
               => (gen[r].updatedKey # NoKeyDoc /\ gen[r].updatedKey.key = gen[r].userKey)
         /\ gen[r].status \in {401, 403} => gen[r].dispatched = 0
         /\ gen[r].dispatched <= 1
    /\ \A k \in StoredKeys :
         /\ Cardinality(DispatchedOn(k)) <= Cardinality(ReservedOn(k))
         /\ Cardinality(DispatchedOn(k)) <= ledger[k].b0 + ledger[k].granted + Cardinality(RefundedOn(k))
    /\ \A r1, r2 \in Reqs :
         (/\ r1 # r2
          /\ ledger[KeyA].b0 = 1 /\ ledger[KeyA].granted = 0 /\ RefundedOn(KeyA) = {}
          /\ gen[r1].pc = "done" /\ gen[r1].status = 200 /\ gen[r1].userKey = KeyA
          /\ gen[r2].pc = "done" /\ gen[r2].userKey = KeyA)
            => (gen[r2].status = 403 /\ gen[r2].dispatched = 0)

\* scenario A: credit 1, two concurrent calls, the upstream call succeeds: one
\* call was dispatched and answered 200, the other was rejected 403
C4_Witness ==
    /\ ledger[KeyA].b0 = 1 /\ ledger[KeyA].granted = 0 /\ RefundedOn(KeyA) = {}
    /\ Cardinality(DispatchedOn(KeyA)) = 1
    /\ \E r1, r2 \in Reqs :
         /\ r1 # r2
         /\ gen[r1].pc = "done" /\ gen[r1].status = 200 /\ gen[r1].dispatched = 1
         /\ gen[r2].pc = "done" /\ gen[r2].status = 403 /\ gen[r2].userKey = KeyA

\* C5 - At most one refund per reservation and none after a successful upstream
\* call: a request changes the balance by -1 exactly when it answers 200 and by 0
\* on every rejection (missing token included), never by +1 or -2.
C5_NetChange ==
    \A r \in Reqs :
        /\ gen[r].refunds <= 1
        /\ gen[r].inc \in {-1, 0}
        /\ gen[r].pc = "done" =>
             /\ gen[r].inc = -1 <=> gen[r].status = 200
             /\ gen[r].status = 200 => gen[r].refunds = 0
             /\ gen[r].updatedKey = NoKeyDoc => (gen[r].inc = 0 /\ gen[r].refunds = 0)

\* one request answered 200 and kept its credit, another failed upstream and
\* was refunded once
C5_Witness ==
    \E r1, r2 \in Reqs :
        /\ gen[r1].pc = "done" /\ gen[r1].status = 200 /\ gen[r1].inc = -1
        /\ gen[r2].pc = "done" /\ gen[r2].status = 500 /\ gen[r2].refunds = 1
        /\ gen[r2].inc = 0

----------------------------------------------------------------------------
(* Properties of the payment state machine (SpecPay) *)

\* completePayment calls that have applied the credit grant of payment p
GrantsFor(p) == {i \in CpIds : cp[i].paymentId = p /\ cp[i].granted}

\* a completePayment call has completed payment p and returned success
CompletedBy(p) ==
    {i \in CpIds : cp[i].paymentId = p /\ cp[i].pc = "done" /\ cp[i].granted
                   /\ cp[i].error = NULL}

TerminalStatus == {"completed", "failed", "expired"}

\* C2 - Payment exactly-once: however many completePayment calls run on the same
\* payment, sequentially or overlapping, its creditAmount is added to the key at
\* most once.
C2_ExactlyOnce ==
    \A p \in PaymentIds : Cardinality(GrantsFor(p)) <= 1

\* C6 - Expiry monotonicity: once expiredAt has passed, a payment that is not
\* completed does not become completed, and no credit is granted for it.
C6_ExpiryMonotonic ==
    [][/\ \A p \in PaymentIds :
            (/\ payments[p].exists /\ payments[p].expiredAt < now
             /\ payments[p].status # "completed" /\ payments'[p].exists)
               => payments'[p].status \in {"pending", "expired", "failed"}
       /\ \A i \in CpIds :
            (~cp[i].granted /\ cp'[i].granted) => ~(cp[i].payment.expiredAt < now)
      ]_vars

\* C7 - No transition out of a terminal state: a payment that is completed,
\* failed or expired keeps that status for as long as its record exists.
C7_TerminalAbsorbing ==
    [][\A p \in PaymentIds :
          (/\ payments[p].exists /\ payments[p].status \in TerminalStatus
           /\ payments'[p].exists)
             => payments'[p].status = payments[p].status
      ]_vars

\* C8 - After a completePayment call has completed a payment, every later call
\* on the same payment id is rejected with 'Payment is not in pending status'
\* and changes neither the key's credit nor the payment.
C8_LaterCallRejected ==
    [][\A i \in CpIds :
          (/\ cp[i].pc = "idle" /\ cp'[i].pc # "idle"
           /\ CompletedBy(cp'[i].paymentId) # {})
             => /\ cp'[i].pc = "done"
                /\ cp'[i].error = "Payment is not in pending status"
                /\ keys' = keys
                /\ payments' = payments
      ]_vars

----------------------------------------------------------------------------
(* Properties of the proxy assignment (SpecAssign) *)

\* run i reported `assigned` for apiKey
ReportedAssigned(i, apiKey) == aa[i].results[apiKey].status = "assigned"

\* C9 - Proxy assignment uniqueness: with auto-assign runs that do not force a
\* reassignment, sequential or overlapping, no proxy is reported `assigned` to two
\* distinct keys, and every key reported `assigned` is still the assignedApiKey
\* of the proxy reported for it.
C9_AssignmentUnique ==
    (\A i \in AaIds : ~aa[i].forceReassign) =>
        /\ \A i, j \in AaIds : \A k1, k2 \in UpstreamKeys :
             (ReportedAssigned(i, k1) /\ ReportedAssigned(j, k2) /\ k1 # k2)
                => aa[i].results[k1].proxy # aa[j].results[k2].proxy
        /\ \A i \in AaIds : \A k \in UpstreamKeys :
             ReportedAssigned(i, k)
                => proxies[aa[i].results[k].proxy].assignedApiKey = k

\* C10 - Each upstream key is the assignedApiKey of at most one proxy in every
\* reachable state.
C10_KeyHasAtMostOneProxy ==
    \A k \in UpstreamKeys : Cardinality(ProxiesAssignedTo(k)) <= 1

----------------------------------------------------------------------------
(* Properties of credit use and admin adjustments (SpecUse, SpecCredit) *)

\* use-credit calls on key k that answered success
UcSucceeded(k) == {i \in UcIds : uc[i].key = k /\ uc[i].pc = "done" /\ uc[i].status = 200}

\* sum of the amounts the calls in S reported as deducted
RECURSIVE UcDeducted(_)
UcDeducted(S) ==
    IF S = {} THEN 0
    ELSE LET i == CHOOSE x \in S : TRUE IN uc[i].amount + UcDeducted(S \ {i})

\* C11 - Atomic check-and-deduct: once no use-credit call is between its read
\* and its save, every key's balance equals its starting balance minus the
\* total amount reported as deducted (so the successes never deduct more than
\* the starting balance).
C11_AtomicDeduct ==
    (\A i \in UcIds : uc[i].pc # "save") =>
        \A k \in StoredKeys :
            /\ keys[k].credit = ledger[k].b0 - UcDeducted(UcSucceeded(k))
            /\ UcDeducted(UcSucceeded(k)) <= ledger[k].b0

\* C12 - Admin adjustments never leave a balance below zero.
C12_AdjustFloorsAtZero == \A k \in StoredKeys : keys[k].credit >= 0

----------------------------------------------------------------------------
(* Properties of proxy deletion (SpecDelete) *)

\* C13 - Deleting a proxy never removes a proxy whose assignedApiKey is non-null
\* at the moment of removal, and no run reports a key as assigned to a proxy
\* that no longer exists.
C13_DeleteOnlyUnassigned ==
    [][/\ \A x \in ProxyIds :
            (proxies[x].exists /\ ~proxies'[x].exists) => proxies[x].assignedApiKey = NULL
       /\ \A i \in AaIds : \A k \in UpstreamKeys :
            (aa'[i].results[k].status = "assigned")
                => proxies'[aa'[i].results[k].proxy].exists]_vars

----------------------------------------------------------------------------
(* Properties of the webhooks (SpecWebhook) *)

\* C14 - No webhook payload is verified by either webhook route, so no step of
\* a webhook call may change a key's credit or a Payment's status.
C14_UnverifiedWebhookInert ==
    [][(wh' # wh) => (keys' = keys /\ payments' = payments)]_vars

----------------------------------------------------------------------------
(* Properties of createPayment (SpecCreate) *)

\* this step is a createPayment call
CreateStep == created' # created \/ issued' # issued

\* an active package sells exactly this many credits
ActivePackageFor(creditAmount) ==
    {d \in PackageDocs : d.isActive /\ d.credits = creditAmount}

\* C15 - createPayment succeeds only if userKey is an active Key and
\* creditAmount equals the credits of an active package or lies in
\* 1..10000; every other call is rejected, stores no Payment and changes no
\* key's credit.
C15_CreateValidates ==
    [][CreateStep =>
         /\ keys' = keys
         /\ created'.error = NULL =>
              /\ created'.userKey \in StoredKeys
              /\ keys[created'.userKey].isActive
              /\ \/ ActivePackageFor(created'.creditAmount) # {}
                 \/ (0 < created'.creditAmount /\ created'.creditAmount <= 10000)
         /\ created'.error # NULL => (payments' = payments /\ issued' = issued)
         /\ ~( /\ created'.userKey \in StoredKeys
               /\ keys[created'.userKey].isActive
               /\ \/ ActivePackageFor(created'.creditAmount) # {}
                  \/ (0 < created'.creditAmount /\ created'.creditAmount <= 10000) )
              => created'.error # NULL]_vars

\* a call with 10001 credits (an inactive package, above the ceiling) was
\* rejected after another call had gone through
C15_Witness ==
    /\ created.called
    /\ created.creditAmount = 10001
    /\ created.error = "Invalid credit amount"
    /\ issued = 1

C17_ManualFallback ==
    [][(CreateStep /\ created'.error = NULL) =>
         LET id == created'.paymentId
             info == created'.transferInfo IN
         /\ keys' = keys
         /\ issued' = issued + 1 /\ id = issued'
         /\ \A p \in PaymentIds : p # id => payments'[p] = payments[p]
         /\ ~payments[id].exists
         /\ payments'[id].exists /\ payments'[id].status = "pending"
         /\ info.accountNumber = BankInfo.accountNumber
         /\ info.amount = payments'[id].price
         /\ info.content = generateTransferContent(created'.userKey, id)
         /\ ~created'.payosOk =>
              /\ created'.payUrl.kind = "manual-url"
              /\ created'.qrData.kind = "manual-qr"
              /\ \A link \in {created'.payUrl, created'.qrData} :
                   /\ link.account = info.accountNumber
                   /\ link.amount = info.amount
                   /\ link.content = info.content]_vars

\* the gateway failed and the call still returned a stored pending Payment
C17_Witness ==
    /\ created.called /\ created.error = NULL /\ ~created.payosOk
    /\ payments[created.paymentId].status = "pending"
    /\ created.qrData.kind = "manual-qr"

----------------------------------------------------------------------------
(* Properties of the upstream key selection (SpecSelect, SpecKeys) *)

\* call i has returned or thrown after reading a provider with keys
Selected(i) == gb[i].pc = "done" /\ gb[i].read.exists /\ gb[i].read.apiKeys # << >>

\* the provider's keys as call i saw them, and those active and not
\* quota-exceeded among them
SeenBy(i) == Elems(gb[i].synced)
AvailableTo(i) == {e \in SeenBy(i) : e.isActive /\ ~e.quotaExceeded}
ActiveTo(i) == {e \in SeenBy(i) : e.isActive}

\* date a is not after date b, a missing date being before every date
NotAfter(a, b) == a = NoDate \/ (b # NoDate /\ a <= b)

NoKeysErrors == {"No API keys configured", "All API keys are exhausted or inactive"}

\* C18 - When the provider has a key that is active and not quota-exceeded,
\* getBestApiKey returns such a key, one whose lastUsed is not after that of any
\* other such key (never-used first); it does not fail for lack of keys.
C18_LeastRecentlyUsed ==
    \A i \in GbIds :
        (Selected(i) /\ AvailableTo(i) # {}) =>
            /\ gb[i].error \notin NoKeysErrors
            /\ gb[i].error = NULL =>
                 \E e \in AvailableTo(i) :
                     /\ e.key = gb[i].key
                     /\ \A o \in AvailableTo(i) : NotAfter(e.lastUsed, o.lastUsed)

\* a call passed over a used key for the never-used one behind it
C18_Witness ==
    \E i \in GbIds :
        /\ Selected(i) /\ gb[i].error = NULL /\ gb[i].key = K2
        /\ \E e \in SeenBy(i) : e.key = K1 /\ IsAvailable(e) /\ e.lastUsed = 1
        /\ \E e \in SeenBy(i) : e.key = K2 /\ e.lastUsed = NoDate

\* C19 - With no key both active and not quota-exceeded, getBestApiKey returns
\* an active key whose lastErrorTime is not after that of any other active key
\* (no error time first); it fails for lack of keys exactly when the provider is
\* unknown, has no keys or has no active key.
C19_FallbackOldestError ==
    \A i \in GbIds :
        gb[i].pc = "done" =>
            /\ (Selected(i) /\ AvailableTo(i) = {} /\ ActiveTo(i) # {}) =>
                 /\ gb[i].error \notin NoKeysErrors
                 /\ gb[i].error = NULL =>
                      \E e \in ActiveTo(i) :
                          /\ e.key = gb[i].key
                          /\ \A o \in ActiveTo(i) : NotAfter(e.lastErrorTime, o.lastErrorTime)
            /\ gb[i].error \in NoKeysErrors
                 <=> (~gb[i].read.exists \/ gb[i].read.apiKeys = << >> \/ ActiveTo(i) = {})

\* a call with both keys quota-exceeded returned the one that failed first
C19_Witness ==
    \E i \in GbIds :
        /\ Selected(i) /\ gb[i].error = NULL /\ gb[i].key = K2
        /\ \E e \in SeenBy(i) : e.key = K1 /\ e.isActive /\ e.quotaExceeded /\ e.lastErrorTime = 2
        /\ \E e \in SeenBy(i) : e.key = K2 /\ e.isActive /\ e.quotaExceeded /\ e.lastErrorTime = 1

\* C20 - A getBestApiKey call that starts after a quota error was recorded on a
\* key, and before the next reset, does not return that key while the provider
\* has another key active and not quota-exceeded.
C20_SkipsQuotaExceeded ==
    \A i \in GbIds :
        (gb[i].pc = "done" /\ gb[i].error = NULL) => gb[i].key \notin gb[i].skip

\* completePayment calls on payment p that are between their first read and
\* their return
RunningOn(p) == {i \in CpIds : cp[i].paymentId = p /\ cp[i].pc \notin {"idle", "done"}}

\* C24 - Grant and transition are all-or-nothing: outside a running
\* completePayment call, a stored Payment's creditAmount has been added to its
\* key if and only if the Payment's status is completed.
C24_GrantIffCompleted ==
    \A p \in PaymentIds :
        (payments[p].exists /\ RunningOn(p) = {}) =>
            ((GrantsFor(p) # {}) <=> (payments[p].status = "completed"))

\* getBestApiKey calls whose syncKeyStatus run has returned
Synced == {i \in GbIds : gb[i].pc = "done" /\ gb[i].error # "No API keys configured"
                          /\ gb[i].error # "VersionError"}

\* the document in memory after the syncKeyStatus run of call i
AfterSync(i) == [gb[i].read EXCEPT !.keyStatus = gb[i].synced]

\* C21 - syncKeyStatus is idempotent: a second run on the document the first
\* run left, with the key list unchanged, yields the same status list (same
\* entries in the same order, nothing appended) and asks for no save.
C21_SyncIdempotent ==
    \A i \in Synced :
        LET again == syncKeyStatus(AfterSync(i)) IN
            /\ again.keyStatus = gb[i].synced
            /\ again.added = << >>
            /\ ~again.updated

\* a first run that both dropped an orphaned entry and added a missing one
C21_Witness ==
    \E i \in Synced :
        /\ Keys(gb[i].read.keyStatus) \ Keys(gb[i].synced) # {}
        /\ Keys(gb[i].synced) \ Keys(gb[i].read.keyStatus) # {}

\* number of entries of key in a status list
EntriesOf(keyStatus, key) == Cardinality({x \in 1..Len(keyStatus) : keyStatus[x].key = key})

\* the status list holds exactly one entry for each key of apiKeys and no
\* entry of another key
InSync(apiKeys, keyStatus) ==
    /\ \A k \in Elems(apiKeys) : EntriesOf(keyStatus, k) = 1
    /\ Keys(keyStatus) \subseteq Elems(apiKeys)

\* two runs that read the same version of the document and both are over,
\* the first of them with its save done
Overlapped(i, j) ==
    /\ i # j
    /\ gb[i].pc = "done" /\ gb[j].pc = "done"
    /\ gb[i].error = NULL
    /\ gb[i].read.exists /\ gb[i].read = gb[j].read
    /\ gb[i].synced # gb[i].read.keyStatus

\* C27 - Overlapping syncKeyStatus runs leave the stored status list without a
\* duplicate entry for any key, and with an entry for each key of the key list
\* once they are over and the key list is as they read it.
C27_ConcurrentSyncNoDuplicates ==
    /\ \A k \in ManagedKeys : EntriesOf(apiProvider.keyStatus, k) <= 1
    /\ \A i, j \in GbIds :
          (/\ Overlapped(i, j)
           /\ \A c \in GbIds : gb[c].pc # "save"
           /\ apiProvider.apiKeys = gb[i].read.apiKeys)
          => \A k \in Elems(apiProvider.apiKeys) : EntriesOf(apiProvider.keyStatus, k) = 1

\* the entries of a status list that a sync run found there
KeptFrom(before, after) ==
    \A x \in 1..Len(after) :
        after[x].key \in Keys(before) => \E y \in 1..Len(before) : before[y] = after[x]

\* the entries of a status list that a sync run added are fresh
AddedFresh(before, after) ==
    \A x \in 1..Len(after) :
        after[x].key \notin Keys(before) => after[x] = NewKeyStatus(after[x].key)

\* C28 - When syncKeyStatus returns, the status list the caller holds and the
\* stored one (its key list being the one the run read) each hold exactly one
\* entry per key of the key list and none of another key; entries found there
\* keep their values and added entries are fresh.
C28_StatusInSyncAfterRun ==
    [][\A i \in GbIds :
          (gb[i].pc # "done" /\ gb'[i].pc = "done" /\ gb'[i].error = NULL) =>
             LET doc == gb'[i].read IN
                /\ InSync(doc.apiKeys, gb'[i].synced)
                /\ KeptFrom(doc.keyStatus, gb'[i].synced)
                /\ AddedFresh(doc.keyStatus, gb'[i].synced)
                /\ (apiProvider'.apiKeys = doc.apiKeys =>
                       InSync(doc.apiKeys, apiProvider'.keyStatus))]_vars

\* every entry of the status list but the one at position x is as it was, and
\* so is the key list
OthersUnchanged(x) ==
    /\ Len(apiProvider'.keyStatus) = Len(apiProvider.keyStatus)
    /\ \A y \in 1..Len(apiProvider.keyStatus) :
          y # x => apiProvider'.keyStatus[y] = apiProvider.keyStatus[y]
    /\ apiProvider'.apiKeys = apiProvider.apiKeys

\* C29 - markKeyError on a key with a status entry sets lastError and
\* lastErrorTime on that entry, raises quotaExceeded exactly when the error
\* type is quota_exceeded or the message holds '429' or 'quota', clears
\* isActive exactly when the type is invalid_key or the message holds 'invalid'
\* or '401', each decided on its own, and changes no other entry.
C29_MarkKeyErrorFlags ==
    [][\A k \in ManagedKeys, t \in ErrorTypes, m \in ErrorMessages :
          (markKeyError(k, t, m) /\ k \in Keys(apiProvider.keyStatus)) =>
             LET x == FirstEntry(apiProvider.keyStatus, k)
                 old == apiProvider.keyStatus[x]
                 new == apiProvider'.keyStatus[x]
                 quota == t = "quota_exceeded" \/ includes(m, "429") \/ includes(m, "quota")
                 invalid == t = "invalid_key" \/ includes(m, "invalid") \/ includes(m, "401")
             IN /\ new.key = k
                /\ new.lastError = m
                /\ new.lastErrorTime = kclock'
                /\ new.quotaExceeded = (old.quotaExceeded \/ quota)
                /\ new.isActive = (old.isActive /\ ~invalid)
                /\ new.requestCount = old.requestCount
                /\ new.lastUsed = old.lastUsed
                /\ OthersUnchanged(x)]_vars

\* an error that signals both has set both flags on an entry, next to an
\* entry that is still fresh
C29_Witness ==
    \E x, y \in 1..Len(apiProvider.keyStatus) :
        /\ apiProvider.keyStatus[x].quotaExceeded
        /\ ~apiProvider.keyStatus[x].isActive
        /\ apiProvider.keyStatus[x].lastError = <<"quota", "project", "invalid">>
        /\ apiProvider.keyStatus[y] = NewKeyStatus(apiProvider.keyStatus[y].key)

WithoutProxy == {i \in MrIds : mr[i].pc # "idle" /\ (mr[i].stored = 0 \/ ~mr[i].agent)}

\* C22 - With no active proxy assigned to the upstream key (the pool may be
\* empty), or with a proxy whose agent cannot be built, makeRequestWithProxy
\* issues one direct request and nothing through a proxy, returns or throws
\* what that request gave, and records no proxy statistics.
C22_DirectWithoutProxy ==
    \A i \in WithoutProxy :
        /\ mr[i].proxied = 0
        /\ mr[i].direct = 1
        /\ mr[i].successes = 0 /\ mr[i].failures = 0
        /\ mr[i].pc \in {"direct", "done"}
        /\ mr[i].pc = "done" => (mr[i].result = "response" <=> mr[i].thrown = NoError)

\* the error is in the retryable set, by its code or by its message
InRetryableSet(error) ==
    \/ error.code \in {"ECONNREFUSED", "ETIMEDOUT", "ENOTFOUND", "ECONNRESET", "EHOSTUNREACH"}
    \/ \E x \in 1..Len(error.message) :
          error.message[x] \in {"ECONNREFUSED", "ETIMEDOUT", "ENOTFOUND", "ECONNRESET",
                                "EHOSTUNREACH"}

\* calls whose request through the proxy failed and whose catch block has run
FailedOver == {i \in MrIds : mr[i].error # NoError /\ mr[i].pc \in {"direct", "done"}}

QuotaMarked(apiKey) ==
    /\ \E x \in 1..Len(apiProvider.keyStatus) :
          apiProvider.keyStatus[x].key = apiKey /\ apiProvider.keyStatus[x].quotaExceeded
    /\ \E y \in 1..Len(apiProvider.keyStatus) :
          apiProvider.keyStatus[y].key # apiKey /\ IsAvailable(apiProvider.keyStatus[y])

\* the outcome of the upstream call is on the key's status entry: a use after
\* status 200, an error otherwise
OutcomeRecorded(keyStatus, apiKey, status) ==
    \E x \in 1..Len(keyStatus) :
        /\ keyStatus[x].key = apiKey
        /\ IF status = 200
           THEN keyStatus[x].requestCount > 0 /\ keyStatus[x].lastUsed # NoDate
           ELSE keyStatus[x].lastError # NULL /\ keyStatus[x].lastErrorTime # NoDate

\* C25 - generate takes its upstream key from the key manager and records the
\* outcome on that key before it responds: it never picks a quota-exceeded key
\* while another key is available, and when a dispatched request answers, the
\* key's entry shows the use (after 200) or the error (after a failure).
C25_GenerateUsesRegistry ==
    [][\A r \in Reqs :
          /\ (gen[r].pc = "provider" /\ gen'[r].apiKey # NULL) => ~QuotaMarked(gen'[r].apiKey)
          /\ (gen[r].pc # "done" /\ gen'[r].pc = "done" /\ gen'[r].dispatched = 1) =>
                OutcomeRecorded(apiProvider'.keyStatus, gen[r].apiKey, gen'[r].status)]_vars

\* C26 - A 2xx upstream answer without generated text is an upstream failure:
\* the request goes to the refund and the rejection, and no request answers
\* 200 with anything but generated text.
C26_EmptyAnswerRefunded ==
    [][\A r \in Reqs :
          /\ (\E o \in EmptyOutcomes : GenAnswer(r, o)) => gen'[r].pc = "refund"
          /\ gen'[r].status = 200 => gen'[r].text = "generated"]_vars

----------------------------------------------------------------------------
(* Properties of the expiry sweep *)

\* payments are created for the active key; two completion attempts and the sweep
\* run in any order while the clock advances
SweepNext ==
    \/ CreatePayment(KeyA, 1, TRUE)
    \/ Tick
    \/ \E i \in {1, 2} : CpFind(i)
    \/ \E i \in {1, 2} : CpMarkAsFailed(i)
    \/ \E i \in {1, 2} : CpGrant(i)
    \/ \E i \in {1, 2} : CpMarkAsCompleted(i)
    \/ Cleanup

SpecSweep == PayInit /\ [][SweepNext]_vars

\* the payment is pending and its expiredAt has passed
PendingPastExpiry(doc) ==
    doc.exists /\ doc.status = "pending" /\ doc.expiredAt < now

ExpiryNext ==
    \/ SweepNext
    \/ \E p \in PaymentIds : TTLDelete(p)

\* the sweep is scheduled fairly: it runs again for as long as something is
\* left to sweep
SpecExpiry == PayInit /\ [][ExpiryNext]_vars /\ WF_vars(Cleanup)

\* the payment is recorded in a terminal status other than completed
SweptOrFailed(doc) ==
    doc.exists /\ doc.status \in {"expired", "failed"}

\* C32 - Under fair scheduling of the sweep, a payment that is pending when its
\* expiredAt has passed eventually is expired or failed and stays recorded in
\* that status: it neither stays pending forever nor disappears.
C32_ExpiredEventuallySwept ==
    \A p \in PaymentIds :
        [](PendingPastExpiry(payments[p]) => <>[]SweptOrFailed(payments[p]))

\* C33 - No two payments created by createPayment carry the same
\* paymentData.orderCode, so an order code names at most one payment.
C33_OrderCodeUnique ==
    \A p, q \in PaymentIds :
        (p # q /\ payments[p].exists /\ payments[q].exists)
            => payments[p].orderCode # payments[q].orderCode

----------------------------------------------------------------------------
(* Properties of the proxy lookup cache (SpecCache) *)

\* C34 - The cache is not relied upon for correctness: whatever was written to
\* the Proxy collection before, a lookup the store could answer returns what a
\* fresh store lookup returns, so no request is routed through a proxy that is
\* at that moment unassigned from the key, inactive or deleted.
C34_LookupAgreesWithStore ==
    \A i \in MrIds :
        mr[i].lookup \in {"hit", "store"} => mr[i].proxy = mr[i].stored

\* the calls that looked their proxy up in this step
LookedUp == {i \in MrIds : mr[i].pc = "idle" /\ mr'[i].pc # "idle"}

\* C35 - getProxyForApiKey returns the cached proxy exactly when the entry was
\* stored less than 30 minutes earlier, and then leaves the cache alone; an
\* entry aged 30 minutes or more is deleted and the store is queried; a proxy
\* the store finds is cached with the current time; when the store finds none,
\* or the query fails, the call returns none and the key has no entry.
C35_CacheTTL ==
    [][\A i \in LookedUp :
          LET k == mr'[i].apiKey
              entry == cache[k]
              young == entry.proxy # 0 /\ now - entry.cacheTime < CacheTTL
              found == mr'[i].lookup = "store" /\ mr'[i].stored # 0
          IN /\ (mr'[i].lookup = "hit") <=> young
             /\ young => (mr'[i].proxy = entry.proxy /\ cache' = cache)
             /\ (~young /\ found) =>
                   /\ mr'[i].proxy = mr'[i].stored
                   /\ cache'[k] = [proxy |-> mr'[i].stored, cacheTime |-> now]
             /\ (~young /\ ~found) => (mr'[i].proxy = 0 /\ cache'[k] = NoEntry)
             /\ \A other \in CacheKeys \ {k} : cache'[other] = cache[other]
      ]_vars

\* an entry cached by one call had aged 30 minutes when another call asked for
\* the same key: the store was queried again and the proxy cached anew
C35_Witness ==
    \E i, j \in MrIds :
        /\ i # j /\ mr[i].apiKey = mr[j].apiKey
        /\ mr[i].lookup = "store" /\ mr[i].proxy # 0
        /\ mr[j].lookup = "store" /\ mr[j].proxy # 0
        /\ cache[mr[j].apiKey].cacheTime >= CacheTTL

----------------------------------------------------------------------------
(* Properties of the proxy statistics and the health check (SpecHealth) *)

\* the first proxy serves K1; each proxy is active or not
HealthPools ==
    [ProxyIds -> {[exists |-> TRUE, isActive |-> act, assignedApiKey |-> k] :
                     act \in BOOLEAN, k \in {K1, NULL}}]

\* proxies that have failed nine or ten times so far
WornStats == {[NoStats EXCEPT !.failureCount = n] : n \in {9, 10}}

HealthInit ==
    /\ KeysInit(0)
    /\ gen = [r \in Reqs |-> IdleReq]
    /\ variant = "final"
    /\ PayIdle
    /\ proxies \in {pool \in HealthPools :
                      \A x \in ProxyIds : pool[x].assignedApiKey = K1 <=> x = 1}
    /\ aa = [i \in AaIds |-> IdleAa]
    /\ uc = [i \in UcIds |-> IdleUc]
    /\ del = [d \in DelIds |-> IdleDel]
    /\ transactions = {}
    /\ wh = [i \in WhIds |-> IdleWh]
    /\ created = NoCreated
    /\ cache = [k \in CacheKeys |-> NoEntry]
    /\ mr = [i \in MrIds |-> IdleMr]
    /\ pstats \in [ProxyIds -> WornStats]
    /\ hc = IdleHc
    /\ KeysIdle

\* one health check run while requests for K1 go through the proxy manager
HealthNext ==
    \/ HcStart
    \/ HcProbe
    \/ HcDisable
    \/ \E i \in MrIds : MrLookup(i)
    \/ \E i \in MrIds : MrProxied(i)
    \/ \E i \in MrIds : MrStatsOk(i)
    \/ \E i \in MrIds : MrStatsFail(i)
    \/ \E i \in MrIds : MrDirect(i)

SpecHealth == HealthInit /\ [][HealthNext]_vars

\* one health check run while one request for K1 goes through the proxy manager
ProbeNext ==
    \/ HcStart
    \/ HcProbe
    \/ HcDisable
    \/ MrLookup(1)
    \/ MrProxied(1)
    \/ MrStatsOk(1)
    \/ MrStatsFail(1)
    \/ MrDirect(1)

SpecProbe == HealthInit /\ [][ProbeNext]_vars

\* the proxy the run is working on
Probing == Head(hc.todo)

C39_FailureCountMonotonic ==
    [][\A x \in ProxyIds :
          (proxies[x].exists /\ proxies'[x].exists)
             => pstats'[x].failureCount >= pstats[x].failureCount
      ]_vars

\* the running average of a proxy's response times after a success that took
\* responseTime
RunningAverage(old, responseTime) ==
    IF old = 0 THEN responseTime ELSE (old + responseTime) \div 2

\* C40 - Every recorded success, of a proxied request or of a health probe,
\* makes avgResponseTime (old + new) / 2, or new when there was no previous
\* value, and adds exactly 1 to successCount; a recorded failure leaves
\* avgResponseTime unchanged.
C40_RunningAverage ==
    [][/\ \A i \in MrIds :
            MrStatsOk(i) =>
               LET x == mr[i].proxy IN
               proxies[x].exists =>
                  /\ pstats'[x].avgResponseTime =
                        RunningAverage(pstats[x].avgResponseTime, mr[i].responseTime)
                  /\ pstats'[x].successCount = pstats[x].successCount + 1
       /\ \A i \in MrIds :
            MrStatsFail(i) =>
               \A x \in ProxyIds : pstats'[x].avgResponseTime = pstats[x].avgResponseTime
       /\ HcProbe =>
            IF hc'.results[Probing] = "ok"
            THEN /\ \E responseTime \in ResponseTimes :
                       pstats'[Probing].avgResponseTime =
                          RunningAverage(pstats[Probing].avgResponseTime, responseTime)
                 /\ pstats'[Probing].successCount = pstats[Probing].successCount + 1
            ELSE \A x \in ProxyIds : pstats'[x].avgResponseTime = pstats[x].avgResponseTime
      ]_vars

----------------------------------------------------------------------------
(* Properties of auto-assign over proxies already bound (SpecBound) *)

BoundInit ==
    /\ KeysInit(0)
    /\ gen = [r \in Reqs |-> IdleReq]
    /\ variant = "final"
    /\ PayIdle
    /\ proxies \in {pool \in HealthPools :
                      \A x \in ProxyIds : pool[x].assignedApiKey = K1 => x = 1}
    /\ aa = [i \in AaIds |-> IdleAa]
    /\ RestIdle

\* two auto-assign runs over a pool whose first proxy may be bound to K1, active
\* or deactivated
BoundNext ==
    \/ \E i \in {1, 2} : AaStart(i)
    \/ \E i \in {1, 2} : AaFindExisting(i)
    \/ \E i \in {1, 2} : AaUnassign(i)
    \/ \E i \in {1, 2} : AaFindAvailable(i)
    \/ \E i \in {1, 2} : AaSaveAssign(i)

SpecBound == BoundInit /\ [][BoundNext]_vars

\* the proxies bound to the key, active or not
BoundTo(apiKey) ==
    {x \in ProxyIds : proxies[x].exists /\ proxies[x].assignedApiKey = apiKey}

\* C37 - A run of auto-assign without forceReassign that finds a proxy bound to
\* the key, active or deactivated, reports the key already_assigned with that
\* proxy, changes no binding and consumes no free proxy for the key, even when
\* getProxyForApiKey returns none for it.
C37_BoundKeyKept ==
    [][\A i \in AaIds :
          /\ (aa[i].pc = "findExisting" /\ aa'[i] # aa[i] /\ ~aa[i].forceReassign
              /\ BoundTo(Head(aa[i].todo)) # {})
               => /\ aa'[i].results[Head(aa[i].todo)].status = "already_assigned"
                  /\ aa'[i].results[Head(aa[i].todo)].proxy \in BoundTo(Head(aa[i].todo))
                  /\ aa'[i].todo = Tail(aa[i].todo)
                  /\ aa'[i].pc \in {"findExisting", "done"}
                  /\ proxies' = proxies
          /\ \A k \in UpstreamKeys :
               aa[i].results[k].status = "already_assigned"
                  => aa'[i].results[k] = aa[i].results[k]
      ]_vars

\* a run is over that reported K1 already_assigned to a deactivated proxy while
\* a free active proxy exists and the lookup for K1 finds none
C37_Witness ==
    \E i \in AaIds :
        /\ aa[i].pc = "done" /\ ~aa[i].forceReassign
        /\ aa[i].results[K1].status = "already_assigned"
        /\ ~proxies[aa[i].results[K1].proxy].isActive
        /\ proxies[aa[i].results[K1].proxy].assignedApiKey = K1
        /\ FindProxyFor(K1) = 0
        /\ AvailableProxies # {}

----------------------------------------------------------------------------
(* Properties of the key status flags across the key manager (SpecKeys) *)

\* the key is in the provider's key list
Listed(doc, key) == \E x \in 1..Len(doc.apiKeys) : doc.apiKeys[x] = key

\* C38 - A key's status entry goes from quotaExceeded to not quotaExceeded only
\* in resetDailyQuotas, and never from inactive to active while the key stays in
\* the provider's key list; markKeyUsed leaves key, isActive and quotaExceeded
\* of every entry as they are.
C38_FlagsOnlyRise ==
    [][/\ \A k \in ManagedKeys :
            LET x == FirstEntry(apiProvider.keyStatus, k)
                y == FirstEntry(apiProvider'.keyStatus, k)
            IN (x # 0 /\ y # 0) =>
                  /\ (apiProvider.keyStatus[x].quotaExceeded
                      /\ ~apiProvider'.keyStatus[y].quotaExceeded)
                        => \E n \in ProviderNames : resetDailyQuotas(n)
                  /\ (Listed(apiProvider, k) /\ Listed(apiProvider', k))
                        => (apiProvider'.keyStatus[y].isActive
                               => apiProvider.keyStatus[x].isActive)
       /\ \A k \in ManagedKeys :
            markKeyUsed(k) =>
               /\ Len(apiProvider'.keyStatus) = Len(apiProvider.keyStatus)
               /\ \A x \in 1..Len(apiProvider.keyStatus) :
                     /\ apiProvider'.keyStatus[x].key = apiProvider.keyStatus[x].key
                     /\ apiProvider'.keyStatus[x].isActive = apiProvider.keyStatus[x].isActive
                     /\ apiProvider'.keyStatus[x].quotaExceeded
                           = apiProvider.keyStatus[x].quotaExceeded
      ]_vars

====
